---- MODULE Spec2Model ----
(***************************************************************************)
(* thop: session orchestration layer.                                      *)
(*                                                                         *)
(* Strings the program inspects (commands, paths, shell output) are        *)
(* sequences of one-character strings, so that trim / starts_with /        *)
(* split_whitespace and path resolution are computed as the code computes  *)
(* them.  Session names are opaque and stay TLA+ strings.                  *)
(***************************************************************************)
EXTENDS Integers, Sequences, FiniteSets, TLC

VARIABLES
    config,          \* the Config handed to Manager::new
    sessions,        \* Manager.sessions : name -> Session
    active_session,  \* Manager.active_session
    state_manager,   \* Manager.state_manager : None or the StateManager's State
    mode,            \* which loop App::run entered: "repl", "proxy" or "mcp"
    enabled,         \* Checker.enabled
    last,            \* what the last operation did and returned
    next_job_id,     \* App.next_job_id (value behind the Mutex)
    id_lock,         \* holder of the next_job_id Mutex
    bg_jobs,         \* App.bg_jobs : id -> BackgroundJob
    threads,         \* per submitting thread: position in cmd_bg and locals
    issued,          \* every job id ever returned by a submission, in order
    workers,         \* ids of the jobs whose spawned thread has not finished
    job_cmd,         \* the REPL's /fg or /kill: position, job id, result
    server_state,    \* mcp::Server.state : the server's own StateManager
    request,         \* the input line the MCP server read last
    written,         \* the lines it wrote to its output while handling that line
    check_call,      \* a call of Checker::check: position, the flag it read, result
    auth_call        \* a call of SshSession::authenticate: what it met, tried, returned

vars == <<config, sessions, active_session, state_manager, mode, enabled, last,
          next_job_id, id_lock, bg_jobs, threads, issued, workers, job_cmd,
          server_state, request, written, check_call, auth_call>>

mgrVars == <<config, sessions, active_session, state_manager, mode, enabled, last,
             check_call, auth_call>>
jobVars == <<next_job_id, id_lock, bg_jobs, threads, issued, workers, job_cmd>>
srvVars == <<server_state, request, written>>

-----------------------------------------------------------------------------
(* Text helpers (str::trim, str::starts_with, str::split_whitespace).      *)

Whitespace == {" ", "\t", "\n", "\r"}

IsSpace(c) == c \in Whitespace

RECURSIVE TrimStart(_)
TrimStart(s) ==
    IF s # <<>> /\ IsSpace(Head(s)) THEN TrimStart(Tail(s)) ELSE s

RECURSIVE TrimEnd(_)
TrimEnd(s) ==
    IF s # <<>> /\ IsSpace(s[Len(s)]) THEN TrimEnd(SubSeq(s, 1, Len(s) - 1)) ELSE s

Trim(s) == TrimEnd(TrimStart(s))

StartsWith(s, p) == Len(s) >= Len(p) /\ SubSeq(s, 1, Len(p)) = p

\* split on the separator characters, dropping empty pieces
RECURSIVE SplitOn(_, _, _, _)
SplitOn(s, seps, cur, acc) ==
    IF s = <<>> THEN (IF cur = <<>> THEN acc ELSE Append(acc, cur))
    ELSE IF Head(s) \in seps
         THEN SplitOn(Tail(s), seps, <<>>, IF cur = <<>> THEN acc ELSE Append(acc, cur))
         ELSE SplitOn(Tail(s), seps, Append(cur, Head(s)), acc)

SplitWhitespace(s) == SplitOn(s, Whitespace, <<>>, <<>>)

Slash == {"/"}

CD == <<"c", "d">>
PWD == <<"p", "w", "d">>

\* trimmed == "cd" || trimmed.starts_with("cd ")
IsCdCommand(cmd) ==
    LET is(trimmed) == trimmed = CD \/ StartsWith(trimmed, CD \o <<" ">>)
    IN is(Trim(cmd))

-----------------------------------------------------------------------------
(* The file systems of the two hosts and the shell commands the transports *)
(* hand to them.  A path is a string; a resolved location is the sequence  *)
(* of its components.                                                      *)

DotDot == <<".", ".">>
Dot == <<".">>

LocalDirs == { <<>>, << <<"t">> >>, << <<"h">> >>, << <<"h">>, <<"u">> >> }
LocalFiles == { << <<"t">>, <<"f">> >> }
RemoteDirs == { <<>>, << <<"t">> >>, << <<"h">> >> }
RemoteFiles == { << <<"h">>, <<"f">> >> }

LocalHome == <<"/", "h", "/", "u">>      \* dirs::home_dir() when HOME is set
LocalStartDir == <<"/", "h">>            \* env::current_dir() of the process
RemoteLoginDir == << <<"h">> >>          \* where a fresh remote channel starts

\* no location: SplitOn never yields an empty component
NotFound == << <<>> >>

\* walk components from location `at`; NotFound if a step leaves the tree
RECURSIVE Walk(_, _, _, _)
Walk(dirs, files, at, comps) ==
    IF at = NotFound THEN NotFound
    ELSE IF comps = <<>> THEN at
    ELSE IF at \notin dirs THEN NotFound
    ELSE LET c == Head(comps) IN
         IF c = Dot THEN Walk(dirs, files, at, Tail(comps))
         ELSE IF c = DotDot
              THEN Walk(dirs, files,
                        IF at = <<>> THEN <<>> ELSE SubSeq(at, 1, Len(at) - 1),
                        Tail(comps))
              ELSE IF Append(at, c) \in dirs \cup files
                   THEN Walk(dirs, files, Append(at, c), Tail(comps))
                   ELSE NotFound

\* resolve a path string from directory `from` (absolute paths ignore it)
Resolve(dirs, files, from, path) ==
    IF path = <<>> THEN NotFound
    ELSE Walk(dirs, files, IF Head(path) = "/" THEN <<>> ELSE from,
              SplitOn(path, Slash, <<>>, <<>>))

\* the path string of a location, as pwd prints it (without the newline)
RECURSIVE Render(_)
Render(loc) ==
    IF loc = <<>> THEN <<"/">>
    ELSE IF Len(loc) = 1 THEN <<"/">> \o loc[1]
    ELSE Render(SubSeq(loc, 1, Len(loc) - 1)) \o <<"/">> \o loc[Len(loc)]

FALSE_CMD == <<"f", "a", "l", "s", "e">>

\* One simple command run by a POSIX shell standing in directory `at`.
\* Result: the directory afterwards, what it printed, and its exit status.
ShellStep(dirs, files, home, at, cmd) ==
    LET moved(to) ==
            IF to \in dirs
            THEN [at |-> to, stdout |-> <<>>, exit_code |-> 0]
            ELSE [at |-> at, stdout |-> <<>>, exit_code |-> 1]
        step(words) ==
            IF words = <<>> THEN [at |-> at, stdout |-> <<>>, exit_code |-> 0]
            ELSE IF words[1] = CD
            THEN moved(IF Len(words) = 1 \/ words[2] = <<"~">> THEN home
                       ELSE Resolve(dirs, files, at, words[2]))
            ELSE IF words[1] = PWD
            THEN [at |-> at, stdout |-> Render(at) \o <<"\n">>, exit_code |-> 0]
            ELSE IF words[1] = FALSE_CMD
            THEN [at |-> at, stdout |-> <<>>, exit_code |-> 1]
            ELSE [at |-> at, stdout |-> <<>>, exit_code |-> 0]
    IN step(SplitWhitespace(cmd))

\* `a && b && ...` : run the parts in order, stop at the first failure
RECURSIVE ShellAndList(_, _, _, _, _, _)
ShellAndList(dirs, files, home, at, parts, out) ==
    LET then(r) ==
            IF r.exit_code # 0
            THEN [at |-> r.at, stdout |-> out \o r.stdout, exit_code |-> r.exit_code]
            ELSE ShellAndList(dirs, files, home, r.at, Tail(parts), out \o r.stdout)
    IN
    IF parts = <<>> THEN [at |-> at, stdout |-> out, exit_code |-> 0]
    ELSE then(ShellStep(dirs, files, home, at, Head(parts)))

-----------------------------------------------------------------------------
(* Results.  An operation of a transport yields the transport afterwards,  *)
(* `res` ("ok" or the kind of the Err it returned) and, for execute, the   *)
(* ExecuteResult.  `sent` lists the command strings that reached a shell.  *)

NoOutput == [stdout |-> <<>>, stderr |-> "", exit_code |-> 0]
NoEnv == [k \in {} |-> <<>>]

Ret(s, res, out, sent) == [s |-> s, res |-> res, out |-> out, sent |-> sent]

-----------------------------------------------------------------------------
(* LocalSession                                                            *)

LocalSessionNew ==
    [kind |-> "local", connected |-> TRUE, cwd |-> LocalStartDir, env |-> NoEnv]

LocalConnect(s) == [s |-> [s EXCEPT !.connected = TRUE], res |-> "ok", steps |-> <<>>]

LocalDisconnect(s) == [s |-> [s EXCEPT !.connected = FALSE], res |-> "ok", steps |-> <<>>]

LocalProcessDir == Resolve(LocalDirs, LocalFiles, <<>>, LocalStartDir)

\* handle_cd: `home` is dirs::home_dir() (<<>> when unset); `sh` is how the
\* spawned `cd <target> && pwd` ends: "ok" (the shell ran it), "empty" (exit 0,
\* nothing printed), "fail" (non-zero exit), "spawn_error" (no such shell).
LocalHandleCd(s, cmd, home, sh) ==
    LET failed(msg, code) ==
            Ret(s, "ok", [stdout |-> <<>>, stderr |-> msg, exit_code |-> code], <<>>)
        spawned(script, run) ==
            IF sh = "spawn_error" THEN failed("spawn error", 1)
            ELSE IF sh = "fail" \/ (sh = "ok" /\ run.exit_code # 0)
                 THEN failed("shell stderr", 1)
            ELSE Ret([s EXCEPT !.cwd = Trim(IF sh = "empty" THEN <<>> ELSE run.stdout)],
                     "ok", NoOutput, <<script>>)
        spawn(script) ==
            spawned(script, ShellAndList(LocalDirs, LocalFiles, LocalProcessDir,
                                         LocalProcessDir, script, <<>>))
        checked(target_dir, at) ==
            IF at = NotFound THEN failed("No such file or directory", 1)
            ELSE IF at \notin LocalDirs THEN failed("Not a directory", 1)
            ELSE spawn(<< CD \o <<" ">> \o target_dir, PWD >>)
        goto(target_dir) ==
            checked(target_dir, Resolve(LocalDirs, LocalFiles, LocalProcessDir, target_dir))
        absolute(expanded) ==
            IF StartsWith(expanded, <<"/">>) THEN expanded ELSE s.cwd \o <<"/">> \o expanded
        expand(target) ==
            IF StartsWith(target, <<"~">>)
            THEN (IF home = <<>> THEN <<"~">> ELSE home) \o Tail(target)
            ELSE target
        cd(parts) ==
            IF Len(parts) = 1 /\ home = <<>> THEN failed("cd: HOME not set", 1)
            ELSE goto(IF Len(parts) = 1 THEN home ELSE absolute(expand(parts[2])))
    IN cd(SplitWhitespace(cmd))

\* execute: cd is tracked by the session, anything else goes to the shell
LocalExecute(s, cmd, home, sh) ==
    LET ran(run) ==
            Ret(s, "ok",
                [stdout |-> IF sh = "empty" THEN <<>> ELSE run.stdout,
                 stderr |-> "",
                 exit_code |-> IF sh = "fail" THEN 1 ELSE run.exit_code],
                << <<cmd>> >>)
        in(at) ==
            IF sh = "spawn_error" \/ at \notin LocalDirs
            THEN Ret(s, "io", NoOutput, <<>>)
            ELSE ran(ShellStep(LocalDirs, LocalFiles, LocalProcessDir, at, cmd))
    IN
    IF IsCdCommand(cmd) THEN LocalHandleCd(s, cmd, home, sh)
    ELSE in(Resolve(LocalDirs, LocalFiles, LocalProcessDir, s.cwd))

-----------------------------------------------------------------------------
(* SshSession.  `connected` stands for session.is_some().                  *)

\* for comparison: a remote session that is connected from the start
SshSessionNewConnected ==
    [kind |-> "ssh", connected |-> TRUE, cwd |-> <<"/">>, env |-> NoEnv]

SshSessionNew ==
    [kind |-> "ssh", connected |-> FALSE, cwd |-> <<"/">>, env |-> NoEnv]

\* verify_host_key: the Err kind for what known_hosts.check answered
\* ("nokey": the server offered no host key), or "ok"
VerifyHostKey(check) ==
    CASE check = "Match" -> "ok"
      [] check = "NotFound" -> "host_key_verification_failed"
      [] check = "Mismatch" -> "host_key_changed"
      [] check = "Failure" -> "host_key_verification_failed"
      [] check = "nokey" -> "host_key_verification_failed"

\* for comparison: an authenticate that goes on to the default key files
\* when the configured identity file is rejected
AuthenticateSwallowsRejection(a) ==
    IF \E i \in DOMAIN a.agent : a.agent[i] THEN "ok"
    ELSE IF a.identity = "ok" THEN "ok"
    ELSE IF \E i \in DOMAIN a.defaults : a.defaults[i] THEN "ok"
    ELSE "auth_failed"

\* authenticate: agent identities first, then the configured identity file,
\* then the default key files; a = [agent : Seq(BOOLEAN),
\* identity : "unset" | "missing" | "ok" | "rejected", defaults : Seq(BOOLEAN)]
Authenticate(a) ==
    IF \E i \in DOMAIN a.agent : a.agent[i] THEN "ok"
    ELSE IF a.identity = "rejected" THEN "auth_key_rejected"
    ELSE IF a.identity = "ok" THEN "ok"
    ELSE IF \E i \in DOMAIN a.defaults : a.defaults[i] THEN "ok"
    ELSE "auth_failed"

\* home.join(".ssh/id_ed25519"), home.join(".ssh/id_rsa"), home.join(".ssh/id_ecdsa")
DefaultKeys == <<"id_ed25519", "id_rsa", "id_ecdsa">>

\* the keys of `keys` a loop that returns at the first success gets to
UpToFirst(keys) ==
    IF \E i \in DOMAIN keys : keys[i]
    THEN 1 .. (CHOOSE i \in DOMAIN keys : keys[i] /\ \A j \in 1 .. i - 1 : ~keys[j])
    ELSE DOMAIN keys

\* authenticate: the attempts it makes, in the order it makes them: the
\* agent's identities, the configured identity file if it exists, the
\* default key files; each with the place it has in its list and whether it
\* was accepted
AuthAttempts(a) ==
    LET from(kind, keys) ==
            [i \in UpToFirst(keys) |-> [kind |-> kind, index |-> i, ok |-> keys[i]]]
    IN
    IF \E i \in DOMAIN a.agent : a.agent[i] THEN from("agent", a.agent)
    ELSE IF a.identity \in {"ok", "rejected"}
    THEN Append(from("agent", a.agent),
                [kind |-> "identity", index |-> 1, ok |-> a.identity = "ok"])
    ELSE from("agent", a.agent) \o from("default", a.defaults)

\* for comparison: a connect that keeps the session as soon as the transport
\* handshake is through
SshConnectKeepsEarly(s, o) ==
    IF s.connected THEN [s |-> s, res |-> "ok", steps |-> <<>>]
    ELSE IF o.tcp # "ok"
    THEN [s |-> s, res |-> "connection_failed", steps |-> << <<"tcp", o.tcp>> >>]
    ELSE [s |-> [s EXCEPT !.connected = TRUE],
          res |-> IF o.handshake = "ok" THEN "ok" ELSE "connection_failed",
          steps |-> << <<"tcp", o.tcp>>, <<"handshake", o.handshake>> >>]

\* for comparison: a connect that dials again whatever the session is
SshConnectAgain(s, o) ==
    IF o.tcp # "ok"
    THEN [s |-> s, res |-> "connection_failed", steps |-> << <<"tcp", o.tcp>> >>]
    ELSE [s |-> [s EXCEPT !.connected = TRUE, !.cwd = <<"/">>], res |-> "ok",
          steps |-> << <<"tcp", "ok">>, <<"handshake", "ok">>, <<"hostkey", "Match">>,
                       <<"auth", "ok">>, <<"pwd", "ok">> >>]

\* connect.  o = [tcp, handshake, hostkey, auth, chan, read]: what the network
\* and the server answer at each step.  `steps` lists the steps performed,
\* each with the answer it got.
SshConnect(s, o) ==
    LET t1 == << <<"tcp", o.tcp>> >>
        t2 == Append(t1, <<"handshake", o.handshake>>)
        t3 == Append(t2, <<"hostkey", o.hostkey>>)
        err(kind, steps) == [s |-> s, res |-> kind, steps |-> steps]
        first_cwd(trimmed) == IF trimmed = <<>> THEN <<"/">> ELSE trimmed
        pwd(run, steps) ==
            IF o.chan # "ok" THEN err("other", steps)
            ELSE [s |-> [s EXCEPT !.connected = TRUE,
                                  !.cwd = first_cwd(Trim(IF o.read = "ok" THEN run.stdout
                                                         ELSE <<>>))],
                  res |-> "ok", steps |-> steps]
        authenticated(au) ==
            IF au # "ok" THEN err(au, Append(t3, <<"auth", au>>))
            ELSE pwd(ShellAndList(RemoteDirs, RemoteFiles, RemoteLoginDir, RemoteLoginDir,
                                  <<PWD>>, <<>>),
                     Append(Append(t3, <<"auth", au>>), <<"pwd", o.chan>>))
        verified(hk) == IF hk # "ok" THEN err(hk, t3) ELSE authenticated(Authenticate(o.auth))
    IN
    IF s.connected THEN [s |-> s, res |-> "ok", steps |-> <<>>]
    ELSE IF o.tcp = "timeout" THEN err("connection_timeout", t1)
    ELSE IF o.tcp # "ok" THEN err("connection_failed", t1)
    ELSE IF o.handshake # "ok" THEN err("connection_failed", t2)
    ELSE verified(VerifyHostKey(o.hostkey))

\* disconnect: session.take()
SshDisconnect(s) == [s |-> [s EXCEPT !.connected = FALSE], res |-> "ok", steps |-> <<>>]

\* value.replace('\'', "'\\''")
RECURSIVE EscapeQuotes(_)
EscapeQuotes(v) ==
    IF v = <<>> THEN <<>>
    ELSE (IF Head(v) = "'" THEN <<"'", "\\", "'", "'">> ELSE <<Head(v)>>)
         \o EscapeQuotes(Tail(v))

EXPORT == <<"e", "x", "p", "o", "r", "t", " ">>

\* the `export K='V'` parts, one per entry of env (HashMap order)
RECURSIVE Exports(_, _)
Exports(env, keys) ==
    IF keys = {} THEN <<>>
    ELSE LET k == CHOOSE x \in keys : TRUE IN
         << EXPORT \o k \o <<"=", "'">> \o EscapeQuotes(env[k]) \o <<"'">> >>
         \o Exports(env, keys \ {k})

\* full_cmd, kept as the list of its `&&`-joined parts
FullCmd(s, cmd) == << CD \o <<" ">> \o s.cwd >> \o Exports(s.env, DOMAIN s.env) \o <<cmd>>

\* for comparison: a channel that is opened before the session is looked at
SshChannelOpensFirst(s, cmd, chan, status) ==
    IF chan \in {"open_fail", "exec_fail"} THEN Ret(s, "other", NoOutput, <<>>)
    ELSE IF ~s.connected THEN Ret(s, "session_disconnected", NoOutput, <<>>)
    ELSE Ret(s, "ok",
             [stdout |-> <<>>, stderr |-> "", exit_code |-> IF status THEN 0 ELSE -1],
             << <<cmd>> >>)

\* one channel: open, exec full_cmd, read, wait_close, exit_status.
\* chan = "ok" | "open_fail" | "exec_fail"; status = does the server report one
SshChannel(s, cmd, chan, status) ==
    LET closed(full_cmd, run) ==
            Ret(s, "ok",
                [stdout |-> run.stdout, stderr |-> "",
                 exit_code |-> IF status THEN run.exit_code ELSE -1],
                << full_cmd >>)
        exec(full_cmd) ==
            closed(full_cmd, ShellAndList(RemoteDirs, RemoteFiles, RemoteLoginDir,
                                          RemoteLoginDir, full_cmd, <<>>))
    IN
    IF ~s.connected THEN Ret(s, "session_disconnected", NoOutput, <<>>)
    ELSE IF chan = "open_fail" THEN Ret(s, "other", NoOutput, <<>>)
    ELSE IF chan = "exec_fail" THEN Ret(s, "other", NoOutput, <<>>)
    ELSE exec(FullCmd(s, cmd))

\* execute; o = [chan, status] for the command's channel and
\* [chan2, status2] for the channel of the pwd that follows a cd: that pwd is
\* self.execute("pwd"), sent with the cwd tracked so far
SshExecute(s, cmd, o) ==
    LET refreshed(first, pwd) ==
            IF pwd.res = "ok" /\ pwd.out.exit_code = 0
            THEN Ret([s EXCEPT !.cwd = Trim(pwd.out.stdout)], "ok", first.out,
                     first.sent \o pwd.sent)
            ELSE Ret(s, "ok", first.out, first.sent \o pwd.sent)
        ran(first) ==
            IF first.res # "ok" THEN first
            ELSE IF IsCdCommand(cmd) /\ first.out.exit_code = 0
            THEN refreshed(first, SshChannel(s, PWD, o.chan2, o.status2))
            ELSE first
    IN ran(SshChannel(s, cmd, o.chan, o.status))

-----------------------------------------------------------------------------
(* Session trait: dispatch on the transport's kind.  `o` carries what the  *)
(* environment answers during the call.                                    *)

SessionConnect(s, o) == IF s.kind = "local" THEN LocalConnect(s) ELSE SshConnect(s, o)

SessionDisconnect(s) == IF s.kind = "local" THEN LocalDisconnect(s) ELSE SshDisconnect(s)

SessionExecute(s, cmd, o) ==
    IF s.kind = "local" THEN LocalExecute(s, cmd, o.home, o.sh) ELSE SshExecute(s, cmd, o)

-----------------------------------------------------------------------------
(* state::Manager, the persistence collaborator.  Every setter changes the *)
(* State in memory and then saves it; `save` is whether the write worked.  *)

\* `connected` and `cwd` are the fields of State.sessions[name]: both maps
\* have the names of State.sessions as their domain
NoStateManager ==
    [present |-> FALSE, active_session |-> "", connected |-> [n \in {} |-> FALSE],
     cwd |-> [n \in {} |-> <<>>]]

\* StateManager::new: State::default()
StateManagerNew ==
    [present |-> TRUE, active_session |-> "local", connected |-> [n \in {} |-> FALSE],
     cwd |-> [n \in {} |-> <<>>]]

StateSetActiveSession(st, name) == [st EXCEPT !.active_session = name]

\* sessions.entry(name).or_default().connected = c
StateSetSessionConnected(st, name, c) ==
    [st EXCEPT !.connected =
                  [n \in DOMAIN st.connected \cup {name} |->
                      IF n = name THEN c ELSE st.connected[n]],
               !.cwd =
                  [n \in DOMAIN st.cwd \cup {name} |->
                      IF n \in DOMAIN st.cwd THEN st.cwd[n] ELSE <<>>]]

-----------------------------------------------------------------------------
(* session::Manager.  m = [sessions, active_session, state_manager].       *)

\* Manager::new: one transport per configured session of a known type
ManagerNew(cfg, st) ==
    [sessions |->
        [n \in {x \in DOMAIN cfg.sessions : cfg.sessions[x] \in {"local", "ssh"}} |->
            IF cfg.sessions[n] = "local" THEN LocalSessionNew ELSE SshSessionNew],
     active_session |-> IF st.present THEN st.active_session ELSE cfg.default_session,
     state_manager |-> st]

HasSession(m, name) == name \in DOMAIN m.sessions

\* `saves` lists the writes asked of the persistence collaborator and whether
\* each worked
MgrRet(m, res) ==
    [m |-> m, res |-> res, steps |-> <<>>, passed |-> <<>>, out |-> NoOutput, saves |-> <<>>]

\* for comparison: a write whose failure is not reported
SavedUnreported(r, what, name, save) ==
    [r EXCEPT !.saves = Append(@, <<what, name, save>>)]

Saved(r, what, name, save) ==
    [r EXCEPT !.saves = Append(@, <<what, name, save>>),
              !.res = IF save THEN "ok" ELSE "state_io"]

\* for comparison: a setter that does not look the name up
SetActiveSessionUnchecked(m, name, save) ==
    [m |-> [m EXCEPT !.active_session = name], res |-> "ok", steps |-> <<>>,
     passed |-> <<>>, out |-> NoOutput, saves |-> <<>>]

\* for comparison: a setter that wants the persistence collaborator
SetActiveSessionNeedsState(m, name, save) ==
    IF ~(name \in DOMAIN m.sessions) \/ ~m.state_manager.present
    THEN [m |-> m, res |-> "session_not_found", steps |-> <<>>, passed |-> <<>>,
          out |-> NoOutput, saves |-> <<>>]
    ELSE [m |-> [m EXCEPT !.active_session = name,
                          !.state_manager = StateSetActiveSession(@, name)],
          res |-> IF save THEN "ok" ELSE "state_io", steps |-> <<>>, passed |-> <<>>,
          out |-> NoOutput, saves |-> << <<"active_session", name, save>> >>]

\* set_active_session
SetActiveSession(m, name, save) ==
    IF ~HasSession(m, name) THEN MgrRet(m, "session_not_found")
    ELSE LET m1 == [m EXCEPT !.active_session = name] IN
         IF m.state_manager.present
         THEN Saved(MgrRet([m1 EXCEPT !.state_manager = StateSetActiveSession(@, name)], "ok"),
                    "active_session", name, save)
         ELSE MgrRet(m1, "ok")

\* execute_on(name, cmd); `passed` is what reached Session::execute
ExecuteOn(m, name, cmd, o) ==
    LET executed(r) ==
            [MgrRet([m EXCEPT !.sessions[name] = r.s], r.res)
                EXCEPT !.passed = << <<name, cmd>> >>, !.out = r.out]
    IN
    IF ~HasSession(m, name) THEN MgrRet(m, "session_not_found")
    ELSE executed(SessionExecute(m.sessions[name], cmd, o))

\* execute(cmd): on the active session
Execute(m, cmd, o) == ExecuteOn(m, m.active_session, cmd, o)

\* connect(name)
Connect(m, name, o, save) ==
    LET connected(r, m1) ==
            IF r.res # "ok" THEN [MgrRet(m1, r.res) EXCEPT !.steps = r.steps]
            ELSE IF m.state_manager.present
            THEN Saved([MgrRet([m1 EXCEPT !.state_manager =
                                   StateSetSessionConnected(@, name, TRUE)], "ok")
                          EXCEPT !.steps = r.steps],
                       "connected", name, save)
            ELSE [MgrRet(m1, "ok") EXCEPT !.steps = r.steps]
        returned(r) == connected(r, [m EXCEPT !.sessions[name] = r.s])
    IN
    IF ~HasSession(m, name) THEN MgrRet(m, "session_not_found")
    ELSE returned(SessionConnect(m.sessions[name], o))

\* disconnect(name)
Disconnect(m, name, save) ==
    LET disconnected(m1) ==
            IF m.state_manager.present
            THEN Saved(MgrRet([m1 EXCEPT !.state_manager =
                                  StateSetSessionConnected(@, name, FALSE)], "ok"),
                       "disconnected", name, save)
            ELSE MgrRet(m1, "ok")
        returned(r) == disconnected([m EXCEPT !.sessions[name] = r.s])
    IN
    IF ~HasSession(m, name) THEN MgrRet(m, "session_not_found")
    ELSE returned(SessionDisconnect(m.sessions[name]))

-----------------------------------------------------------------------------
(* The callers of the manager: the REPL's slash commands (cli/interactive), *)
(* the proxy loop's (cli/proxy) and the MCP tools (mcp/tools).  Each yields *)
(* the manager afterwards and the Result it returned.                       *)

IsKind(m, name, kind) == m.sessions[name].kind = kind

\* cmd_connect
CmdConnect(m, name, o) ==
    IF ~HasSession(m, name) THEN MgrRet(m, "session_not_found")
    ELSE IF IsKind(m, name, "local") THEN MgrRet(m, "ok")
    ELSE IF m.sessions[name].connected THEN MgrRet(m, "ok")
    ELSE Connect(m, name, o, o.save1)

\* cmd_switch, and the proxy's /switch, which repeats it
CmdSwitch(m, name, o) ==
    LET connected(c) ==
            IF c.res # "ok" THEN c
            ELSE [SetActiveSession(c.m, name, o.save2)
                    EXCEPT !.steps = c.steps, !.saves = c.saves \o @]
    IN
    IF ~HasSession(m, name) THEN MgrRet(m, "session_not_found")
    ELSE IF IsKind(m, name, "ssh") /\ ~m.sessions[name].connected
    THEN connected(Connect(m, name, o, o.save1))
    ELSE SetActiveSession(m, name, o.save2)

\* cmd_close, and the proxy's /close, which repeats it
CmdClose(m, name, o) ==
    LET disconnected(d) ==
            IF d.res # "ok" THEN d
            ELSE IF d.m.active_session = name
                 THEN [SetActiveSession(d.m, "local", o.save2) EXCEPT !.saves = d.saves \o @]
                 ELSE d
    IN
    IF ~HasSession(m, name) THEN MgrRet(m, "session_not_found")
    ELSE IF IsKind(m, name, "local") THEN MgrRet(m, "ok")
    ELSE IF ~m.sessions[name].connected THEN MgrRet(m, "ok")
    ELSE disconnected(Disconnect(m, name, o.save1))

\* the proxy's /connect
ProxyCmdConnect(m, name, o) ==
    IF ~HasSession(m, name) THEN MgrRet(m, "session_not_found")
    ELSE Connect(m, name, o, o.save1)

\* the proxy's /local
ProxyCmdLocal(m, o) == SetActiveSession(m, "local", o.save2)

\* tool_connect, tool_switch, tool_close (with the session argument given)
ToolConnect(m, name, o) == Connect(m, name, o, o.save1)

ToolSwitch(m, name, o) == SetActiveSession(m, name, o.save2)

ToolClose(m, name, o) == Disconnect(m, name, o.save1)

\* for comparison: the background flag is ignored and the command runs
ToolExecuteForeground(m, cmd, session, background, o) ==
    IF session # ""
    THEN (IF ~HasSession(m, session) THEN MgrRet(m, "session_not_found")
          ELSE ExecuteOn(m, session, cmd, o))
    ELSE Execute(m, cmd, o)

\* tool_execute; session = "" when the argument is absent
ToolExecute(m, cmd, session, background, o) ==
    IF background THEN MgrRet(m, "not_implemented")
    ELSE IF session # ""
         THEN (IF ~HasSession(m, session) THEN MgrRet(m, "session_not_found")
               ELSE ExecuteOn(m, session, cmd, o))
         ELSE Execute(m, cmd, o)

-----------------------------------------------------------------------------
(* restriction::Checker.  A rule is the shape of its pattern, the command  *)
(* name it reports and its category; patterns are searched anywhere in the *)
(* command, as Regex::is_match does.                                       *)

Rule(shape, command, category) == [shape |-> shape, command |-> command, category |-> category]

PrivilegeEscalationRules ==
    << Rule("name", <<"s", "u", "d", "o">>, "PrivilegeEscalation"),
       Rule("name", <<"s", "u">>, "PrivilegeEscalation"),
       Rule("name", <<"d", "o", "a", "s">>, "PrivilegeEscalation"),
       Rule("name", <<"p", "k", "e", "x", "e", "c">>, "PrivilegeEscalation") >>

DestructiveFileRules ==
    << Rule("name", <<"r", "m">>, "DestructiveFile"),
       Rule("name", <<"r", "m", "d", "i", "r">>, "DestructiveFile"),
       Rule("name", <<"s", "h", "r", "e", "d">>, "DestructiveFile"),
       Rule("name", <<"w", "i", "p", "e">>, "DestructiveFile"),
       Rule("name", <<"s", "r", "m">>, "DestructiveFile"),
       Rule("name", <<"u", "n", "l", "i", "n", "k">>, "DestructiveFile"),
       Rule("name", <<"d", "d">>, "DestructiveFile"),
       Rule("truncate", <<"t", "r", "u", "n", "c", "a", "t", "e">>, "DestructiveFile"),
       Rule("redirect", <<">", " ", "r", "e", "d", "i", "r", "e", "c", "t">>, "DestructiveFile") >>

SystemModificationRules ==
    << Rule("name", <<"c", "h", "m", "o", "d">>, "SystemModification"),
       Rule("name", <<"c", "h", "o", "w", "n">>, "SystemModification"),
       Rule("name", <<"c", "h", "g", "r", "p">>, "SystemModification"),
       Rule("name", <<"c", "h", "a", "t", "t", "r">>, "SystemModification"),
       Rule("name", <<"f", "d", "i", "s", "k">>, "SystemModification"),
       Rule("name", <<"p", "a", "r", "t", "e", "d">>, "SystemModification"),
       Rule("name", <<"m", "o", "u", "n", "t">>, "SystemModification"),
       Rule("name", <<"u", "m", "o", "u", "n", "t">>, "SystemModification"),
       Rule("name", <<"f", "s", "c", "k">>, "SystemModification"),
       Rule("name", <<"s", "h", "u", "t", "d", "o", "w", "n">>, "SystemModification"),
       Rule("name", <<"r", "e", "b", "o", "o", "t">>, "SystemModification"),
       Rule("name", <<"p", "o", "w", "e", "r", "o", "f", "f">>, "SystemModification"),
       Rule("name", <<"h", "a", "l", "t">>, "SystemModification"),
       Rule("name", <<"i", "n", "i", "t">>, "SystemModification"),
       Rule("name", <<"u", "s", "e", "r", "a", "d", "d">>, "SystemModification"),
       Rule("name", <<"u", "s", "e", "r", "d", "e", "l">>, "SystemModification"),
       Rule("name", <<"u", "s", "e", "r", "m", "o", "d">>, "SystemModification"),
       Rule("name", <<"g", "r", "o", "u", "p", "a", "d", "d">>, "SystemModification"),
       Rule("name", <<"g", "r", "o", "u", "p", "d", "e", "l">>, "SystemModification"),
       Rule("name", <<"g", "r", "o", "u", "p", "m", "o", "d">>, "SystemModification"),
       Rule("name", <<"p", "a", "s", "s", "w", "d">>, "SystemModification"),
       Rule("name", <<"s", "y", "s", "t", "e", "m", "c", "t", "l">>, "SystemModification"),
       Rule("name", <<"s", "e", "r", "v", "i", "c", "e">>, "SystemModification"),
       Rule("name", <<"i", "n", "s", "m", "o", "d">>, "SystemModification"),
       Rule("name", <<"r", "m", "m", "o", "d">>, "SystemModification"),
       Rule("name", <<"m", "o", "d", "p", "r", "o", "b", "e">>, "SystemModification"),
       Rule("name", <<"s", "e", "t", "e", "n", "f", "o", "r", "c", "e">>, "SystemModification"),
       Rule("name", <<"a", "a", "-", "e", "n", "f", "o", "r", "c", "e">>, "SystemModification"),
       Rule("name", <<"a", "a", "-", "c", "o", "m", "p", "l", "a", "i", "n">>, "SystemModification"),
       Rule("mkfs", <<"m", "k", "f", "s">>, "SystemModification") >>

\* Checker::new: the three families in registration order
Rules == PrivilegeEscalationRules \o DestructiveFileRules \o SystemModificationRules

IsWordChar(c) ==
    c \in {"a", "b", "c", "d", "e", "f", "g", "h", "i", "j", "k", "l", "m", "n", "o",
           "p", "q", "r", "s", "t", "u", "v", "w", "x", "y", "z", "_",
           "0", "1", "2", "3", "4", "5", "6", "7", "8", "9"}

\* (?:^|[|;&]) : the positions right after the start or an operator
Anchors(s) == {1} \cup {i + 1 : i \in {j \in DOMAIN s : s[j] \in {"|", ";", "&"}}}

AllSpace(s, i, j) == \A k \in i .. j : IsSpace(s[k])

\* positions reachable from i over \s*
AfterSpaces(s, i) == {j \in i .. Len(s) + 1 : AllSpace(s, i, j - 1)}

\* positions where the literal `w` ends (exclusive) when it starts at j
LiteralAt(s, j, w) == j + Len(w) - 1 <= Len(s) /\ SubSeq(s, j, j + Len(w) - 1) = w

\* (?:^|[|;&])\s*  followed by the literal w: the positions right after w
AfterCommand(s, w) ==
    {j + Len(w) : j \in {x \in UNION {AfterSpaces(s, a) : a \in Anchors(s)} : LiteralAt(s, x, w)}}

\* for comparison: the name anywhere in the command, followed by whitespace
MatchesNameAnywhere(s, w) ==
    \E j \in 1 .. Len(s) :
        LiteralAt(s, j, w) /\ j + Len(w) <= Len(s) /\ IsSpace(s[j + Len(w)])

\* NAME\s
MatchesName(s, w) == \E e \in AfterCommand(s, w) : e <= Len(s) /\ IsSpace(s[e])

\* truncate\s+.*-s\s*0
MatchesTruncate(s, w) ==
    \E e \in AfterCommand(s, w) :
        \E k \in AfterSpaces(s, e) \ {e} :
            \E p \in k .. Len(s) :
                /\ \A q \in k .. p - 1 : s[q] # "\n"
                /\ LiteralAt(s, p, <<"-", "s">>)
                /\ \E z \in AfterSpaces(s, p + 2) : z <= Len(s) /\ s[z] = "0"

\* >\s*\S
MatchesRedirect(s) ==
    \E e \in AfterCommand(s, <<">">>) :
        \E z \in AfterSpaces(s, e) : z <= Len(s) /\ ~IsSpace(s[z])

\* mkfs(?:\.\w+)?\s
MatchesMkfs(s, w) ==
    \E e \in AfterCommand(s, w) :
        \/ e <= Len(s) /\ IsSpace(s[e])
        \/ /\ e <= Len(s) /\ s[e] = "."
           /\ \E z \in e + 2 .. Len(s) :
                /\ \A q \in e + 1 .. z - 1 : IsWordChar(s[q])
                /\ IsSpace(s[z])

IsMatch(rule, s) ==
    CASE rule.shape = "name" -> MatchesName(s, rule.command)
      [] rule.shape = "truncate" -> MatchesTruncate(s, rule.command)
      [] rule.shape = "redirect" -> MatchesRedirect(s)
      [] rule.shape = "mkfs" -> MatchesMkfs(s, rule.command)

NoRule == Rule("none", <<>>, "")

\* for comparison: a check that loads the flag a second time when it has
\* found a rule
CheckReadsTwice(on, cmd) ==
    LET first(c, hits) ==
            IF ~on \/ c = <<>> \/ hits = {} THEN [allowed |-> TRUE, rule |-> NoRule]
            ELSE [allowed |-> ~enabled, rule |-> Rules[CHOOSE i \in hits : \A j \in hits : i <= j]]
        matching(c) == first(c, {i \in DOMAIN Rules : IsMatch(Rules[i], c)})
    IN matching(Trim(cmd))

\* for comparison: a check that goes on to the last matching rule
CheckLastMatch(on, cmd) ==
    LET last_of(c, hits) ==
            IF ~on \/ c = <<>> \/ hits = {} THEN [allowed |-> TRUE, rule |-> NoRule]
            ELSE [allowed |-> FALSE, rule |-> Rules[CHOOSE i \in hits : \A j \in hits : i >= j]]
        matching(c) == last_of(c, {i \in DOMAIN Rules : IsMatch(Rules[i], c)})
    IN matching(Trim(cmd))

\* Checker::check: the first matching rule, if checking is on
Check(on, cmd) ==
    LET c == Trim(cmd)
        hits == {i \in DOMAIN Rules : IsMatch(Rules[i], c)}
    IN
    IF ~on \/ c = <<>> \/ hits = {} THEN [allowed |-> TRUE, rule |-> NoRule]
    ELSE [allowed |-> FALSE, rule |-> Rules[CHOOSE i \in hits : \A j \in hits : i <= j]]

-----------------------------------------------------------------------------
(* Inputs.                                                                 *)

Names == {"local", "prod", "dev"}

\* Config.sessions: name -> type, for the configured names
Configs ==
    { [sessions |-> ("local" :> "local") @@ ("prod" :> "ssh"), default_session |-> d]
        : d \in {"local", "prod", "dev"} }
    \cup
    { [sessions |-> ("local" :> "local") @@ ("prod" :> "ssh") @@ ("dev" :> t),
       default_session |-> "local"] : t \in {"ssh", "local", "docker"} }
    \cup
    { [sessions |-> ("local" :> "docker") @@ ("prod" :> "ssh"), default_session |-> "local"] }

AuthEnvs ==
    { [agent |-> <<>>, identity |-> "ok", defaults |-> <<FALSE, FALSE, FALSE>>],
      [agent |-> <<FALSE, TRUE>>, identity |-> "rejected", defaults |-> <<FALSE, FALSE, FALSE>>],
      [agent |-> <<FALSE>>, identity |-> "rejected", defaults |-> <<TRUE, FALSE, FALSE>>],
      [agent |-> <<>>, identity |-> "missing", defaults |-> <<FALSE, TRUE, FALSE>>],
      [agent |-> <<>>, identity |-> "unset", defaults |-> <<FALSE, FALSE, FALSE>>] }

\* everything answers as hoped
Calm ==
    [tcp |-> "ok", handshake |-> "ok", hostkey |-> "Match",
     auth |-> [agent |-> <<TRUE>>, identity |-> "unset", defaults |-> <<FALSE, FALSE, FALSE>>],
     chan |-> "ok", read |-> "ok",
     home |-> LocalHome, sh |-> "ok", status |-> TRUE, chan2 |-> "ok", status2 |-> TRUE,
     save1 |-> TRUE, save2 |-> TRUE]

\* what the network and the server may answer to a connect
ConnectAnswers ==
    {Calm}
    \cup {[Calm EXCEPT !.tcp = x] : x \in {"timeout", "refused"}}
    \cup {[Calm EXCEPT !.handshake = "fail"]}
    \cup {[Calm EXCEPT !.hostkey = x] : x \in {"NotFound", "Mismatch", "Failure", "nokey"}}
    \cup {[Calm EXCEPT !.auth = x] : x \in AuthEnvs}
    \cup {[Calm EXCEPT !.chan = "fail"]}
    \cup {[Calm EXCEPT !.read = "fail"]}
    \cup {[Calm EXCEPT !.handshake = "fail", !.hostkey = "Mismatch"],
          [Calm EXCEPT !.hostkey = "NotFound", !.auth = CHOOSE x \in AuthEnvs : Authenticate(x) = "auth_failed"],
          [Calm EXCEPT !.tcp = "timeout", !.chan = "fail"]}

\* whether the state file can be written, for the (at most two) saves of a call
WithSaves(answers) ==
    {[o EXCEPT !.save1 = a, !.save2 = b] : o \in answers, a \in BOOLEAN, b \in BOOLEAN}

\* a failed connect saves nothing, so only the calm answer needs both
ConnectInputs == ConnectAnswers \cup WithSaves({Calm})

\* a few of the answers to an execute
FewExecuteAnswers ==
    {Calm, [Calm EXCEPT !.sh = "spawn_error"], [Calm EXCEPT !.chan = "open_fail"]}

\* what the shells and channels may answer to an execute
ExecuteAnswers ==
    {[Calm EXCEPT !.sh = x] : x \in {"ok", "empty", "fail", "spawn_error"}}
    \cup {[Calm EXCEPT !.home = <<>>]}
    \cup {[Calm EXCEPT !.chan = x] : x \in {"open_fail", "exec_fail"}}
    \cup {[Calm EXCEPT !.status = FALSE]}
    \cup {[Calm EXCEPT !.chan2 = "open_fail"]}
    \cup {[Calm EXCEPT !.status2 = FALSE]}

LS == <<"l", "s">>
SUDO_LS == <<"s", "u", "d", "o", " ", "l", "s">>
LS_SUDO_RM == <<"l", "s", ";", " ", "s", "u", "d", "o", " ", "r", "m", " ", "f">>
ECHO_SUDO == <<"e", "c", "h", "o", " ", "s", "u", "d", "o">>

\* command lines typed at the prompt or sent by the agent
PlainCommands == {LS, SUDO_LS, LS_SUDO_RM, ECHO_SUDO, FALSE_CMD, PWD}

CdCommands ==
    {CD \o <<" ">> \o d : d \in { <<"/", "t">>, <<"u">>, <<".", ".">>, <<"/", "x">>,
                                  <<"/", "t", "/", "f">>, <<"~">> }}
    \cup {CD, <<" ">> \o CD \o <<" ", "/", "t", " ">>}

-----------------------------------------------------------------------------
(* State.                                                                  *)

M == [sessions |-> sessions, active_session |-> active_session,
      state_manager |-> state_manager]

NoLast == [op |-> "none", by |-> "", arg |-> "", cmd |-> <<>>, res |-> "ok",
           steps |-> <<>>, passed |-> <<>>, out |-> NoOutput, saves |-> <<>>]

\* the manager after an operation, and the record of what the operation was
DoneBy(r, op, by, arg, cmd) ==
    /\ sessions' = r.m.sessions
    /\ active_session' = r.m.active_session
    /\ state_manager' = r.m.state_manager
    /\ last' = [op |-> op, by |-> by, arg |-> arg, cmd |-> cmd, res |-> r.res,
                steps |-> r.steps, passed |-> r.passed, out |-> r.out, saves |-> r.saves]
    /\ UNCHANGED <<config, mode, enabled, check_call, auth_call, jobVars>>

\* an operation of the REPL, the proxy or a tool called directly
Done(r, op, by, arg, cmd) == DoneBy(r, op, by, arg, cmd) /\ UNCHANGED srvVars

MaxJobs == 3           \* submissions explored
NumSubmitters == 2     \* threads that may be inside cmd_bg at once

Submitters == 1 .. NumSubmitters

\* a thread outside cmd_bg
IdleThread == [pc |-> "idle", command |-> <<>>, session |-> "", current |-> 0]

\* the REPL before any /fg or /kill
NoJobCmd == [op |-> "none", pc |-> "idle", id |-> 0, res |-> "", job |-> <<>>]

\* no call of check yet
NoCheck == [pc |-> "idle", cmd |-> <<>>, on |-> FALSE,
            result |-> [allowed |-> TRUE, rule |-> NoRule], rejected |-> FALSE]

\* no line read yet
NoLine == [json |-> "none", method |-> <<>>, id |-> "absent", params |-> <<>>]

\* no authenticate called yet
NoAuth ==
    [pc |-> "idle", res |-> "", tried |-> <<>>,
     a |-> [agent |-> <<>>, identity |-> "unset", defaults |-> <<FALSE, FALSE, FALSE>>]]

\* App::new: no job, the counter at 1, its Mutex free (0: no holder);
\* Server::new: its own StateManager::new, nothing read or written;
\* no check under way
InitJobs ==
    /\ next_job_id = 1
    /\ id_lock = 0
    /\ bg_jobs = [i \in {} |-> IdleThread]
    /\ threads = [t \in Submitters |-> IdleThread]
    /\ issued = <<>>
    /\ workers = {}
    /\ job_cmd = NoJobCmd
    /\ server_state = StateManagerNew
    /\ request = NoLine
    /\ written = <<>>
    /\ check_call = NoCheck
    /\ auth_call = NoAuth

\* App::new / run_mcp / a test: Manager::new(&config, Some(StateManager::new(..)) or None)
Init ==
    /\ config \in Configs
    /\ state_manager \in {NoStateManager, StateManagerNew}
    /\ mode \in {"repl", "proxy", "mcp"}
    /\ sessions = ManagerNew(config, state_manager).sessions
    /\ active_session = ManagerNew(config, state_manager).active_session
    /\ enabled = FALSE
    /\ last = NoLast
    /\ InitJobs

-----------------------------------------------------------------------------
(* Operations of the three loops.                                          *)

ReplConnect(name) ==
    /\ mode = "repl"
    /\ \E o \in ConnectInputs : Done(CmdConnect(M, name, o), "connect", "repl", name, <<>>)

ReplSwitch(name) ==
    /\ mode = "repl"
    /\ \E o \in ConnectInputs : Done(CmdSwitch(M, name, o), "switch", "repl", name, <<>>)

ReplClose(name) ==
    /\ mode = "repl"
    /\ \E o \in WithSaves({Calm}) : Done(CmdClose(M, name, o), "close", "repl", name, <<>>)

\* run_interactive: a trimmed, non-empty line that is no slash command
ReplExecute(cmd, o) ==
    /\ mode = "repl"
    /\ Trim(cmd) # <<>>
    /\ Done(Execute(M, Trim(cmd), o), "execute", "repl", "", Trim(cmd))

ProxyConnect(name) ==
    /\ mode = "proxy"
    /\ \E o \in ConnectInputs : Done(ProxyCmdConnect(M, name, o), "connect", "proxy", name, <<>>)

ProxySwitch(name) ==
    /\ mode = "proxy"
    /\ \E o \in ConnectInputs : Done(CmdSwitch(M, name, o), "switch", "proxy", name, <<>>)

ProxyLocal ==
    /\ mode = "proxy"
    /\ \E o \in WithSaves({Calm}) : Done(ProxyCmdLocal(M, o), "switch", "proxy", "local", <<>>)

ProxyClose(name) ==
    /\ mode = "proxy"
    /\ \E o \in WithSaves({Calm}) : Done(CmdClose(M, name, o), "close", "proxy", name, <<>>)

\* run_proxy: a non-empty line that is no slash command
ProxyExecute(cmd, o) ==
    /\ mode = "proxy"
    /\ cmd # <<>>
    /\ Done(Execute(M, cmd, o), "execute", "proxy", "", cmd)

McpConnect(name) ==
    /\ mode = "mcp"
    /\ \E o \in ConnectInputs : Done(ToolConnect(M, name, o), "connect", "mcp", name, <<>>)

McpSwitch(name) ==
    /\ mode = "mcp"
    /\ \E o \in WithSaves({Calm}) : Done(ToolSwitch(M, name, o), "switch", "mcp", name, <<>>)

McpClose(name) ==
    /\ mode = "mcp"
    /\ \E o \in WithSaves({Calm}) : Done(ToolClose(M, name, o), "close", "mcp", name, <<>>)

McpExecute(cmd, session, background, o) ==
    /\ mode = "mcp"
    /\ Done(ToolExecute(M, cmd, session, background, o), "execute", "mcp", session, cmd)

\* Checker::set_enabled
SetEnabled(b) ==
    /\ enabled' = b
    /\ last' = [NoLast EXCEPT !.op = "set_enabled"]
    /\ UNCHANGED <<config, sessions, active_session, state_manager, mode, check_call,
                   auth_call, jobVars, srvVars>>

Next ==
    \/ \E n \in Names : ReplConnect(n)
    \/ \E n \in Names : ReplSwitch(n)
    \/ \E n \in Names : ReplClose(n)
    \/ \E c \in {LS, FALSE_CMD}, o \in FewExecuteAnswers : ReplExecute(c, o)
    \/ \E n \in Names : ProxyConnect(n)
    \/ \E n \in Names : ProxySwitch(n)
    \/ ProxyLocal
    \/ \E n \in Names : ProxyClose(n)
    \/ \E c \in {LS, FALSE_CMD}, o \in FewExecuteAnswers : ProxyExecute(c, o)
    \/ \E n \in Names : McpConnect(n)
    \/ \E n \in Names : McpSwitch(n)
    \/ \E n \in Names : McpClose(n)
    \/ \E c \in {LS, FALSE_CMD}, s \in {"", "prod", "dev"}, b \in BOOLEAN, o \in FewExecuteAnswers :
          McpExecute(c, s, b, o)

Spec == Init /\ [][Next]_vars

-----------------------------------------------------------------------------
(* Command execution: the two hosts' shells, cd tracking and the           *)
(* restriction checker, with one local and one remote session configured.  *)

ExecConfig ==
    [sessions |-> ("local" :> "local") @@ ("prod" :> "ssh"), default_session |-> "local"]

InitExec ==
    /\ config = ExecConfig
    /\ state_manager = StateManagerNew
    /\ mode = "repl"
    /\ sessions = ManagerNew(config, state_manager).sessions
    /\ active_session = ManagerNew(config, state_manager).active_session
    /\ enabled = FALSE
    /\ last = NoLast
    /\ InitJobs

Commands == {LS, SUDO_LS, FALSE_CMD, PWD} \cup CdCommands

NextExec ==
    \/ \E b \in BOOLEAN : SetEnabled(b)
    \/ \E n \in {"local", "prod"} : ReplSwitch(n)
    \/ \E n \in {"local", "prod"} : ReplClose(n)
    \/ \E c \in Commands, o \in ExecuteAnswers : ReplExecute(c, o)

SpecExec == InitExec /\ [][NextExec]_vars

-----------------------------------------------------------------------------
(* restriction::Checker on its own: set_enabled stores the flag, check      *)
(* loads it once (is_enabled) and then goes through the rules.  A call of  *)
(* set_enabled from another thread may fall between the two.               *)

RM_SUDO_LS == <<"r", "m", " ", "f", ";", " ", "s", "u", "d", "o", " ", "l", "s">>

\* the commands handed to check
CheckCommands ==
    {
      <<>>,   \* the empty line
      <<" ", " ">>,   \* blanks only
      <<"\t", "\n">>,   \* a tab and a newline
      LS,   \* no restricted name
      SUDO_LS,
      <<"s", "u", "d", "o">>,   \* nothing after the name
      ECHO_SUDO,   \* the name as an argument
      <<"g", "r", "e", "p", " ", "r", "m", " ", "f", "i", "l", "e">>,   \* the name as an argument, followed by a blank
      <<"r", "e", "s", "u", "m", "e">>,   \* the name su inside a word
      <<"x", "r", "m", " ", "f">>,   \* the name rm at the end of a word
      LS_SUDO_RM,
      RM_SUDO_LS,
      <<"l", "s", "|", "r", "m", " ", "f">>,   \* directly after a pipe
      <<"l", "s", " ", "&", "&", " ", " ", "s", "u", " ", "-">>,   \* blanks between the operator and the name
      <<" ", "r", "m", " ", "f", " ">>,   \* blanks around the command
      <<"r", "m", " ">>,   \* the blank after the name is trimmed away
      <<"l", "s", ";", "r", "m">>,   \* nothing after the name
      <<"r", "m", "\t", "f">>,   \* a tab after the name
      <<"r", "m", "d", "i", "r", " ", "d">>,
      <<"c", "h", "m", "o", "d", " ", "7", " ", "f", ";", " ", "r", "m", " ", "f">>,   \* a system-modification and a destructive-file rule
      <<"t", "r", "u", "n", "c", "a", "t", "e", " ", "-", "s", " ", "0", " ", "f">>,
      <<"t", "r", "u", "n", "c", "a", "t", "e", " ", "f">>,   \* truncate without -s 0
      <<">", " ", "f">>,
      <<">", "f">>,
      <<"l", "s", " ", ">", " ", "f">>,   \* a redirect of a command's output
      <<"m", "k", "f", "s", ".", "e", "x", "t", "4", " ", "/", "d">>,
      <<"m", "k", "f", "s", " ", "/", "d">>,
      <<"m", "k", "f", "s", ".", "x">>    \* nothing after the suffix
    }

\* check: if !self.is_enabled() -- the one load of the flag
CheckLoad(cmd) ==
    /\ check_call.pc # "loaded"
    /\ check_call' = [check_call EXCEPT !.pc = "loaded", !.cmd = cmd, !.on = enabled]
    /\ UNCHANGED <<config, sessions, active_session, state_manager, mode, enabled, last,
                   auth_call, jobVars, srvVars>>

\* check: the rest of the call, with the flag as it was loaded
CheckReturn ==
    /\ check_call.pc = "loaded"
    /\ LET returned(r) ==
            check_call' = [check_call EXCEPT !.pc = "returned", !.result = r,
                                             !.rejected = @ \/ ~r.allowed]
       IN returned(Check(check_call.on, check_call.cmd))
    /\ UNCHANGED <<config, sessions, active_session, state_manager, mode, enabled, last,
                   auth_call, jobVars, srvVars>>

MaxIdentities == 2     \* identities the key agent may hold

BoolSeqs(n) == UNION {[1 .. k -> BOOLEAN] : k \in 0 .. n}

\* what authenticate may meet: the agent's identities and which of them the
\* server accepts, the configured identity file (not configured, not there,
\* accepted, rejected), and which default key files are there and accepted
AuthInputs ==
    [agent : BoolSeqs(MaxIdentities),
     identity : {"unset", "missing", "ok", "rejected"},
     defaults : [1 .. Len(DefaultKeys) -> BOOLEAN]]

\* SshSession::authenticate called with the session of a connect
AuthenticateCall(a) ==
    /\ auth_call' = [pc |-> "returned", a |-> a, res |-> Authenticate(a),
                     tried |-> AuthAttempts(a)]
    /\ UNCHANGED <<config, sessions, active_session, state_manager, mode, enabled, last,
                   check_call, jobVars, srvVars>>

NextAuth == \E a \in AuthInputs : AuthenticateCall(a)

SpecAuth == InitExec /\ [][NextAuth]_vars

NextCheck ==
    \/ \E b \in BOOLEAN : SetEnabled(b)
    \/ \E c \in CheckCommands : CheckLoad(c)
    \/ CheckReturn

SpecCheck == InitExec /\ [][NextCheck]_vars

-----------------------------------------------------------------------------
(* Properties of the session manager and its transports.                   *)

IsRemote(n) == n \in DOMAIN sessions /\ sessions[n].kind = "ssh"
IsLocal(n) == n \in DOMAIN sessions /\ sessions[n].kind = "local"

\* the step just taken was operation `op` of loop `by` (every operation
\* writes `last`, so a step that changes the state names its operation there)
Did(op, by) == vars' # vars /\ last'.op = op /\ last'.by = by

\* C2: right after a switch that succeeded, through any of the three loops,
\* a remote session switched to is connected.
C2_SwitchedRemoteIsConnected ==
    (last.op = "switch" /\ last.res = "ok" /\ IsRemote(last.arg))
        => sessions[last.arg].connected

\* C3: active_session is a key of the manager's session mapping, from
\* construction on.
C3_ActiveSessionIsKey == active_session \in DOMAIN sessions

\* C4 as claimed: set_active_session(n) (the MCP switch tool calls nothing
\* else) succeeds for every n in the mapping and leaves n active, and fails
\* with session-not-found for every other n.
C4_SetActiveAlwaysSucceeds ==
    (last.op = "switch" /\ last.by = "mcp")
        => IF last.arg \in DOMAIN sessions
           THEN last.res = "ok" /\ active_session = last.arg
           ELSE last.res = "session_not_found"

\* C4 as amended: for n in the mapping, set_active_session(n) leaves n active
\* and returns Ok unless the write of the persistence collaborator fails, and
\* then returns that error with n still active; for n not in the mapping it
\* returns session-not-found and active_session keeps its value.
C4_SetActiveSession ==
    [][Did("switch", "mcp") =>
        IF last'.arg \in DOMAIN sessions
        THEN /\ active_session' = last'.arg
             /\ IF state_manager.present
                THEN /\ Len(last'.saves) = 1
                     /\ last'.res = IF last'.saves[1][3] THEN "ok" ELSE "state_io"
                ELSE last'.saves = <<>> /\ last'.res = "ok"
        ELSE /\ last'.res = "session_not_found"
             /\ active_session' = active_session
             /\ sessions' = sessions /\ state_manager' = state_manager]_vars

\* set_active_session returned an error although n is configured
C4_Witness ==
    /\ last.op = "switch" /\ last.by = "mcp" /\ last.res = "state_io"
    /\ last.arg \in DOMAIN sessions /\ active_session = last.arg

\* C5: a local transport is connected in every reachable state.
C5_LocalAlwaysConnected == \A n \in DOMAIN sessions : IsLocal(n) => sessions[n].connected

AllStepsOk ==
    << <<"tcp", "ok">>, <<"handshake", "ok">>, <<"hostkey", "Match">>, <<"auth", "ok">>,
       <<"pwd", "ok">> >>

\* the names of the connect steps, in the order connect takes them
StepOrder == <<"tcp", "handshake", "hostkey", "auth", "pwd">>

\* C6: a remote transport starts disconnected; it becomes connected only in
\* a connect that did the TCP connect, the handshake, the host-key check, the
\* authentication and the first pwd, in that order and each with success; a
\* connect in which a step fails does no later step, returns an error and
\* leaves the transport as it was.
C6_ConnectedOnlyAfterFullConnect ==
    /\ \A n \in DOMAIN sessions : IsRemote(n) => ~sessions[n].connected
    /\ [][\A n \in DOMAIN sessions : IsRemote(n) =>
            /\ (~sessions[n].connected /\ sessions'[n].connected)
                  => /\ last'.op \in {"connect", "switch"} /\ last'.arg = n
                     /\ last'.steps = AllStepsOk
            /\ (vars' # vars /\ last'.op \in {"connect", "switch"} /\ last'.arg = n
                  /\ ~sessions[n].connected /\ last'.steps # <<>>)
                  => /\ \A i \in DOMAIN last'.steps : last'.steps[i][1] = StepOrder[i]
                     /\ \A i \in 1 .. Len(last'.steps) - 1 : last'.steps[i] = AllStepsOk[i]
                     /\ last'.steps # AllStepsOk
                          => /\ last'.res \notin {"ok", "state_io"}
                             /\ sessions'[n] = sessions[n]]_vars

\* a connect took all five steps and left the remote session connected
C6_Witness ==
    /\ last.op = "connect" /\ IsRemote(last.arg) /\ sessions[last.arg].connected
    /\ last.steps = AllStepsOk /\ last.res = "ok"

\* C9: disconnect of a remote session that is not connected succeeds and
\* changes nothing; connect of a remote session that is connected succeeds,
\* takes none of the connect steps and leaves the session, its cwd and its env
\* as they were.  (The proxy's /connect and the MCP connect and close tools
\* call the transport without looking at it first; the only error they can
\* then return is that of the persistence write.)
C9_ConnectDisconnectIdempotent ==
    [][\A n \in DOMAIN sessions : IsRemote(n) =>
          /\ (Did("close", "mcp") /\ last'.arg = n /\ ~sessions[n].connected)
                => /\ sessions'[n] = sessions[n]
                   /\ last'.res = IF \E i \in DOMAIN last'.saves : ~last'.saves[i][3]
                                  THEN "state_io" ELSE "ok"
          /\ ((Did("connect", "mcp") \/ Did("connect", "proxy")) /\ last'.arg = n
                /\ sessions[n].connected)
                => /\ sessions'[n] = sessions[n]
                   /\ last'.steps = <<>>
                   /\ last'.res = IF \E i \in DOMAIN last'.saves : ~last'.saves[i][3]
                                  THEN "state_io" ELSE "ok"]_vars

\* a connect of a connected remote session has returned Ok without a step
C9_Witness ==
    /\ last.op = "connect" /\ last.by \in {"mcp", "proxy"} /\ last.res = "ok"
    /\ IsRemote(last.arg) /\ sessions[last.arg].connected /\ last.steps = <<>>

\* the kinds of error a transport's connect or the lookup of the name returns
TransportErrors ==
    {"session_not_found", "connection_timeout", "connection_failed",
     "host_key_verification_failed", "host_key_changed", "auth_key_rejected",
     "auth_failed", "other"}

\* C22: when the write of the persistence collaborator fails during
\* set_active_session, connect or disconnect (the MCP switch, connect and
\* close tools call exactly these), the change already made in memory stays:
\* the name is the active session, the transport is connected, the transport
\* is disconnected; and the call returns the error of the write, which is
\* none of the kinds a transport or the lookup of the name returns.
C22_FailedWriteKeepsChange ==
    [][\A op \in {"switch", "connect", "close"} :
          (Did(op, "mcp") /\ \E i \in DOMAIN last'.saves : ~last'.saves[i][3])
          => /\ last'.res = "state_io"
             /\ last'.res \notin TransportErrors
             /\ op = "switch" => active_session' = last'.arg
             /\ op = "connect" => sessions'[last'.arg].connected
             /\ op = "close" => ~sessions'[last'.arg].connected]_vars

\* a connect went through all its steps, the write of the connected flag
\* failed, and the remote session is connected
C22_Witness ==
    /\ last.op = "connect" /\ last.by = "mcp" /\ last.res = "state_io"
    /\ last.steps = AllStepsOk
    /\ IsRemote(last.arg) /\ sessions[last.arg].connected

-----------------------------------------------------------------------------
(* Background jobs (cmd_bg, the job's thread, cmd_fg, cmd_kill_job).  The   *)
(* counter and the job table are shared (Arc<Mutex<usize>>,                *)
(* Arc<RwLock<HashMap>>); cmd_bg is followed statement by statement, for   *)
(* any number of threads running it.                                       *)

\* for comparison: a lock that lets everyone in
LockNever(holder) == TRUE

\* Mutex::lock returns once no one holds the lock
LockFree(holder) == holder = 0

\* BackgroundJob::new
BackgroundJobNew(id, command, session) ==
    [id |-> id, command |-> command, session |-> session, end_time |-> "None",
     status |-> "running", exit_code |-> 0, stdout |-> <<>>, stderr |-> ""]

\* HashMap::remove
JobsRemove(jobs, id) == [i \in DOMAIN jobs \ {id} |-> jobs[i]]

\* let session_name = active session; let mut id = next_job_id.lock()
BgLock(t, command) ==
    /\ threads[t].pc = "idle"
    /\ next_job_id <= MaxJobs
    /\ LockFree(id_lock)
    /\ id_lock' = t
    /\ threads' = [threads EXCEPT ![t] = [pc |-> "locked", command |-> command,
                                          session |-> active_session, current |-> 0]]
    /\ UNCHANGED <<mgrVars, srvVars, next_job_id, bg_jobs, issued, workers, job_cmd>>

\* let current = *id
BgTake(t) ==
    /\ threads[t].pc = "locked"
    /\ threads' = [threads EXCEPT ![t].pc = "taken", ![t].current = next_job_id]
    /\ issued' = Append(issued, next_job_id)
    /\ UNCHANGED <<mgrVars, srvVars, next_job_id, id_lock, bg_jobs, workers, job_cmd>>

\* *id += 1
BgBump(t) ==
    /\ threads[t].pc = "taken"
    /\ next_job_id' = next_job_id + 1
    /\ threads' = [threads EXCEPT ![t].pc = "bumped"]
    /\ UNCHANGED <<mgrVars, srvVars, id_lock, bg_jobs, issued, workers, job_cmd>>

\* the guard is dropped at the end of the block
BgUnlock(t) ==
    /\ threads[t].pc = "bumped"
    /\ id_lock' = 0
    /\ threads' = [threads EXCEPT ![t].pc = "insert"]
    /\ UNCHANGED <<mgrVars, srvVars, next_job_id, bg_jobs, issued, workers, job_cmd>>

\* jobs.insert(job_id, job)
BgInsert(t) ==
    /\ threads[t].pc = "insert"
    /\ bg_jobs' = [i \in DOMAIN bg_jobs \cup {threads[t].current} |->
                      IF i = threads[t].current
                      THEN BackgroundJobNew(i, threads[t].command, threads[t].session)
                      ELSE bg_jobs[i]]
    /\ threads' = [threads EXCEPT ![t].pc = "spawn"]
    /\ UNCHANGED <<mgrVars, srvVars, next_job_id, id_lock, issued, workers, job_cmd>>

\* thread::spawn(move || ..): from here on the job's thread runs
BgSpawn(t) ==
    /\ threads[t].pc = "spawn"
    /\ threads' = [threads EXCEPT ![t].pc = "return"]
    /\ workers' = workers \cup {threads[t].current}
    /\ UNCHANGED <<mgrVars, srvVars, next_job_id, id_lock, bg_jobs, issued, job_cmd>>

\* Ok(())
BgReturn(t) ==
    /\ threads[t].pc = "return"
    /\ threads' = [threads EXCEPT ![t] = IdleThread]
    /\ UNCHANGED <<mgrVars, srvVars, next_job_id, id_lock, bg_jobs, issued, workers, job_cmd>>

\* the job's thread runs from thread::spawn until its closure returns
Spawned(id) == id \in workers

\* for comparison: a thread that works on the manager of the REPL
ThreadManagerShared(m, cfg) == [shared |-> TRUE, m |-> m]

\* let state = StateManager::new(..); let mut sessions =
\* SessionManager::new(&config, Some(state)): the closure takes a clone of
\* the configuration and builds a manager of its own; the REPL's manager `m`
\* is not moved into it
ThreadManager(m, cfg) == [shared |-> FALSE, m |-> ManagerNew(cfg, StateManagerNew)]

\* what the job's thread gets from its manager: set_active_session(session)
\* with the error dropped, then execute
JobResult(job, o) ==
    Execute(SetActiveSession(ThreadManager(M, config).m, job.session, o.save2).m,
            job.command, o)

\* for comparison: a thread that sets the end time and leaves the status
JobFinishedStatusKept(job, r) == [job EXCEPT !.end_time = "Some"]

\* the end of the job's thread: the job, if still in the table, gets its result
JobFinished(job, r) ==
    IF r.res = "ok"
    THEN [job EXCEPT !.end_time = "Some", !.status = "completed",
                     !.stdout = r.out.stdout, !.stderr = r.out.stderr,
                     !.exit_code = r.out.exit_code]
    ELSE [job EXCEPT !.end_time = "Some", !.status = "failed",
                     !.stderr = r.res, !.exit_code = 1]

\* for comparison: a thread that puts its job back when it is gone
WorkerUpdateInserts(jobs, id, o) ==
    [i \in DOMAIN jobs \cup {id} |->
        IF i = id
        THEN JobFinished(BackgroundJobNew(id, LS, "local"),
                         JobResult(BackgroundJobNew(id, LS, "local"), o))
        ELSE jobs[i]]

\* let mut jobs = bg_jobs.write(); if let Some(job) = jobs.get_mut(&job_id)
\* { .. }: the table after the thread's update
WorkerUpdate(jobs, id, o) ==
    IF id \in DOMAIN jobs
    THEN [jobs EXCEPT ![id] = JobFinished(@, JobResult(@, o))]
    ELSE jobs

\* the REPL's manager after the thread of job `id` has run: the thread's
\* calls reach it only if it is the manager the thread works on
WorkerManager(m, jobs, id, o) ==
    IF ThreadManager(m, config).shared /\ id \in DOMAIN jobs
    THEN JobResult(jobs[id], o).m
    ELSE m

\* the job's thread: its command has returned, it takes the write lock,
\* updates the table and ends
WorkerDone(id, o) ==
    /\ Spawned(id)
    /\ bg_jobs' = WorkerUpdate(bg_jobs, id, o)
    /\ workers' = workers \ {id}
    /\ LET after(m) ==
               /\ sessions' = m.sessions
               /\ active_session' = m.active_session
               /\ state_manager' = m.state_manager
       IN after(WorkerManager(M, bg_jobs, id, o))
    /\ UNCHANGED <<config, mode, enabled, last, check_call, auth_call, srvVars, next_job_id,
                   id_lock, threads, issued, job_cmd>>

\* the REPL reads its next line once the command before it has returned
ReplIdle == job_cmd.pc = "idle" /\ \A t \in Submitters : threads[t].pc = "idle"

\* cmd_jobs: the jobs listed
CmdJobs == DOMAIN bg_jobs

\* for comparison: a wait that takes every status for a final one
NeverRunning(job) == FALSE

\* for comparison: a wait that takes no status for a final one
AlwaysRunning(job) == TRUE

\* cmd_fg's loop: job.status != "running" breaks it
StillRunning(job) == job.status = "running"

\* cmd_fg: if !jobs.contains_key(&job_id) { return Err(..not found) }
FgCheck(id) ==
    /\ ReplIdle
    /\ job_cmd' = IF id \in DOMAIN bg_jobs
                  THEN [op |-> "fg", pc |-> "wait", id |-> id, res |-> "", job |-> <<>>]
                  ELSE [op |-> "fg", pc |-> "idle", id |-> id, res |-> "not_found",
                        job |-> <<>>]
    /\ UNCHANGED <<mgrVars, srvVars, next_job_id, id_lock, bg_jobs, threads, issued, workers>>

\* cmd_fg: one round of the loop (break, not found, or sleep and look again)
FgPoll ==
    /\ job_cmd.pc = "wait"
    /\ job_cmd' = IF job_cmd.id \notin DOMAIN bg_jobs
                  THEN [job_cmd EXCEPT !.pc = "idle", !.res = "not_found"]
                  ELSE IF StillRunning(bg_jobs[job_cmd.id])
                       THEN job_cmd
                       ELSE [job_cmd EXCEPT !.pc = "remove"]
    /\ UNCHANGED <<mgrVars, srvVars, next_job_id, id_lock, bg_jobs, threads, issued, workers>>

\* cmd_fg: jobs.remove(&job_id), the job displayed if there was one, Ok(())
FgRemove ==
    /\ job_cmd.pc = "remove"
    /\ job_cmd' = [job_cmd EXCEPT !.pc = "idle", !.res = "ok",
                                  !.job = IF job_cmd.id \in DOMAIN bg_jobs
                                          THEN <<bg_jobs[job_cmd.id]>> ELSE <<>>]
    /\ bg_jobs' = JobsRemove(bg_jobs, job_cmd.id)
    /\ UNCHANGED <<mgrVars, srvVars, next_job_id, id_lock, threads, issued, workers>>

\* for comparison: a kill that does not look at the status
KillJobAnyStatus(jobs, id) ==
    IF id \notin DOMAIN jobs
    THEN [jobs |-> jobs, res |-> "not_found", job |-> <<>>]
    ELSE [jobs |-> JobsRemove(jobs, id), res |-> "ok",
          job |-> <<[jobs[id] EXCEPT !.status = "failed", !.end_time = "Some",
                                     !.stderr = "killed by user", !.exit_code = 137]>>]

\* cmd_kill_job on the job table: the table after it, the result, the job
\* as it was marked before its removal
KillJob(jobs, id) ==
    IF id \notin DOMAIN jobs
    THEN [jobs |-> jobs, res |-> "not_found", job |-> <<>>]
    ELSE IF jobs[id].status # "running"
         THEN [jobs |-> jobs, res |-> "not_running", job |-> <<>>]
         ELSE [jobs |-> JobsRemove(jobs, id), res |-> "ok",
               job |-> <<[jobs[id] EXCEPT !.status = "failed", !.end_time = "Some",
                                          !.stderr = "killed by user",
                                          !.exit_code = 137]>>]

CmdKillJob(id) ==
    /\ ReplIdle
    /\ LET done(r) ==
               /\ bg_jobs' = r.jobs
               /\ job_cmd' = [op |-> "kill", pc |-> "idle", id |-> id, res |-> r.res,
                              job |-> r.job]
       IN done(KillJob(bg_jobs, id))
    /\ UNCHANGED <<mgrVars, srvVars, next_job_id, id_lock, threads, issued, workers>>

\* the REPL, on the local session or switched to the remote one
InitJobsRepl ==
    /\ config = ExecConfig
    /\ state_manager = StateManagerNew
    /\ mode = "repl"
    /\ \E m \in {ManagerNew(config, state_manager),
                  CmdSwitch(ManagerNew(config, state_manager), "prod", Calm).m} :
          sessions = m.sessions /\ active_session = m.active_session
    /\ enabled = FALSE
    /\ last = NoLast
    /\ InitJobs

JobIds == 1 .. MaxJobs + 1

NextJobs ==
    \/ \E t \in Submitters : BgLock(t, LS)
    \/ \E t \in Submitters : BgTake(t)
    \/ \E t \in Submitters : BgBump(t)
    \/ \E t \in Submitters : BgUnlock(t)
    \/ \E t \in Submitters : BgInsert(t)
    \/ \E t \in Submitters : BgSpawn(t)
    \/ \E t \in Submitters : BgReturn(t)
    \/ \E id \in JobIds, o \in FewExecuteAnswers : WorkerDone(id, o)
    \/ \E id \in JobIds : FgCheck(id)
    \/ FgPoll
    \/ FgRemove
    \/ \E id \in JobIds : CmdKillJob(id)

SpecJobs == InitJobsRepl /\ [][NextJobs]_vars

\* the REPL is one thread: it alone calls cmd_bg, cmd_fg and cmd_kill_job
Repl == 1

NextJobsRepl ==
    \/ BgLock(Repl, LS)
    \/ BgTake(Repl)
    \/ BgBump(Repl)
    \/ BgUnlock(Repl)
    \/ BgInsert(Repl)
    \/ BgSpawn(Repl)
    \/ BgReturn(Repl)
    \/ \E id \in JobIds, o \in FewExecuteAnswers : WorkerDone(id, o)
    \/ \E id \in JobIds : FgCheck(id)
    \/ FgPoll
    \/ FgRemove
    \/ \E id \in JobIds : CmdKillJob(id)

\* cmd_kill_job on the shared job table by a holder of the Arc other than
\* the REPL, which is inside cmd_fg's loop: the case the loop's else branch
\* is written for
KillWhilePolling(id) ==
    /\ job_cmd.pc = "wait"
    /\ LET done(r) == r.res = "ok" /\ bg_jobs' = r.jobs
       IN done(KillJob(bg_jobs, id))
    /\ UNCHANGED <<mgrVars, srvVars, next_job_id, id_lock, threads, issued, workers,
                   job_cmd>>

\* the REPL, the jobs' threads, and the job table edited under cmd_fg
NextFgShared ==
    \/ NextJobsRepl
    \/ \E id \in JobIds : KillWhilePolling(id)

SpecFgShared == InitJobsRepl /\ [][NextFgShared]_vars

CD_U == CD \o <<" ", "u">>

\* the commands given to /bg
BgCommands == {LS, CD_U}

\* what the thread's shell, channel and state file may answer
BgAnswers == FewExecuteAnswers \cup {[Calm EXCEPT !.save2 = FALSE]}

\* the REPL submitting jobs, and the jobs' threads
NextBg ==
    \/ \E command \in BgCommands : BgLock(Repl, command)
    \/ BgTake(Repl)
    \/ BgBump(Repl)
    \/ BgUnlock(Repl)
    \/ BgInsert(Repl)
    \/ BgSpawn(Repl)
    \/ BgReturn(Repl)
    \/ \E id \in JobIds, o \in BgAnswers : WorkerDone(id, o)

SpecBg == InitJobsRepl /\ [][NextBg]_vars

\* the command of every job's thread returns and the thread gets the write
\* lock: weak fairness of WorkerDone for every id, written with its ENABLED
\* worked out (the step is enabled exactly while Spawned(id), and taking it
\* ends Spawned(id)); cmd_fg's loop wakes up from its sleep and goes on to
\* its remove
SpecJobsFair ==
    /\ InitJobsRepl
    /\ [][NextJobsRepl]_vars
    /\ \A id \in JobIds : []<>(~Spawned(id))
    /\ WF_vars(FgPoll)
    /\ WF_vars(FgRemove)

-----------------------------------------------------------------------------
(* The MCP server (mcp/server, mcp/handlers, mcp/tools, mcp/errors).  A     *)
(* line of input is what serde makes of it: empty, not a JsonRpcMessage,    *)
(* or a message with optional method, id and params.  A JSON value is kept  *)
(* with its type, so that as_str and as_bool have something to refuse.      *)

MethodNotFound == -32601
InternalError == -32603

\* Server::register_handlers
Handlers ==
    {"initialize", "initialized", "tools/list", "tools/call", "resources/list",
     "resources/read", "ping", "cancelled", "progress"}

\* JSON values of an argument map: a missing key, a string (a name, or the
\* characters of a command), a boolean, a number
Absent == [json |-> "absent", str |-> "", chars |-> <<>>, bool |-> FALSE]
Str(s) == [Absent EXCEPT !.json = "string", !.str = s]
Chars(c) == [Absent EXCEPT !.json = "string", !.chars = c]
Bool(b) == [Absent EXCEPT !.json = "bool", !.bool = b]
Number == [Absent EXCEPT !.json = "number"]

\* for comparison: a value of any type is taken for the string
AsStrAny(v) == IF v.json = "absent" THEN <<>> ELSE <<v>>

\* args.get(key).and_then(|v| v.as_str()), .and_then(|v| v.as_bool())
AsStr(v) == IF v.json = "string" THEN <<v>> ELSE <<>>
AsBool(v) == IF v.json = "bool" THEN <<v.bool>> ELSE <<>>

\* Option<Value> of JsonRpcMessage.id: a missing key and null are both None
ParseId(raw) == IF raw \in {"absent", "null"} THEN <<>> ELSE <<raw>>

\* MCPError::new; the message keeps what names the failure
MCPError(code, message) == [code |-> code, message |-> message]

MissingParameter(param) == MCPError("MISSING_PARAMETER", param)

\* Content::text
Text(code, text) == [type |-> "text", code |-> code, text |-> text]

\* Content::text_with_mime(data, "application/json"), data being the JSON
\* text of `value`
TextWithMime(text, value) ==
    [type |-> "text", code |-> "", text |-> text, mime_type |-> "application/json",
     json |-> value]

\* a ToolCallResult, and the other values a handler returns, as the Value
\* put into a response.  `members` are the keys serde writes for the struct:
\* isError is skipped when it is false
ToolCallResult(content, is_error) ==
    [kind |-> "tool_result", content |-> content, is_error |-> is_error,
     members |-> {"content"} \cup (IF is_error THEN {"isError"} ELSE {})]

Json(kind, text) ==
    [kind |-> kind, content |-> <<Text("", text)>>, is_error |-> FALSE, members |-> {}]

\* for comparison: the error text without the flag
ToToolResultUnflagged(err) == ToolCallResult(<<Text(err.code, err.message)>>, FALSE)

\* MCPError::to_tool_result: one text block "[CODE] message", is_error
ToToolResult(err) == ToolCallResult(<<Text(err.code, err.message)>>, TRUE)

\* the MCPError a tool makes of the manager's error: the code it picks by
\* looking into the error text is not followed, the error is kept
FromError(res) ==
    MCPError(IF res = "session_not_found" THEN "SESSION_NOT_FOUND" ELSE "FAILED", res)

\* what a tool returns: the manager afterwards (and what it did), the result
Tool(r, result) == [r |-> r, result |-> result]

Refused(m, err) == Tool(MgrRet(m, err.code), ToToolResult(err))

Answered(r, text) ==
    Tool(r, IF r.res = "ok" THEN ToolCallResult(<<Text("", text)>>, FALSE)
            ELSE ToToolResult(FromError(r.res)))

\* the texts of error.rs and session/ssh.rs, character by character
SESSION_QUOTE ==
    <<"S", "e", "s", "s", "i", "o", "n", " ", "'">>

QUOTE_NOT_FOUND ==
    <<"'", " ", "n", "o", "t", " ", "f", "o", "u", "n", "d">>

TIMED_OUT_TO ==
    <<"C", "o", "n", "n", "e", "c", "t", "i", "o", "n", " ", "t", "i", "m", "e", "d",
      " ", "o", "u", "t", " ", "t", "o", " ">>

FAILED_TO_CONNECT_TO ==
    <<"F", "a", "i", "l", "e", "d", " ", "t", "o", " ", "c", "o", "n", "n", "e", "c",
      "t", " ", "t", "o", " ">>

VERIFICATION_FAILED_FOR ==
    <<"H", "o", "s", "t", " ", "k", "e", "y", " ", "v", "e", "r", "i", "f", "i", "c",
      "a", "t", "i", "o", "n", " ", "f", "a", "i", "l", "e", "d", " ", "f", "o", "r",
      " ">>

NO_HOST_KEY ==
    <<"N", "o", " ", "h", "o", "s", "t", " ", "k", "e", "y", " ", "p", "r", "o", "v",
      "i", "d", "e", "d", " ", "b", "y", " ", "s", "e", "r", "v", "e", "r">>

HOST_KEY_FOR ==
    <<"H", "o", "s", "t", " ", "k", "e", "y", " ", "f", "o", "r", " ">>

HAS_CHANGED ==
    <<" ", "h", "a", "s", " ", "c", "h", "a", "n", "g", "e", "d", "!", " ", "T", "h",
      "i", "s", " ", "c", "o", "u", "l", "d", " ", "b", "e", " ", "a", " ", "s", "e",
      "c", "u", "r", "i", "t", "y", " ", "i", "s", "s", "u", "e", ".">>

KEY_REJECTED ==
    <<"K", "e", "y", " ", "r", "e", "j", "e", "c", "t", "e", "d", ":", " ">>

AUTHENTICATION_FAILED_FOR ==
    <<"A", "u", "t", "h", "e", "n", "t", "i", "c", "a", "t", "i", "o", "n", " ", "f",
      "a", "i", "l", "e", "d", " ", "f", "o", "r", " ">>

FAILED_TO_OPEN_CHANNEL ==
    <<"F", "a", "i", "l", "e", "d", " ", "t", "o", " ", "o", "p", "e", "n", " ", "c",
      "h", "a", "n", "n", "e", "l", ":", " ">>

IO_ERROR ==
    <<"I", "O", " ", "e", "r", "r", "o", "r", ":", " ">>

\* texts the operating system and libssh2 put into {}: one of each kind
\* io::Error of a refused connection
RefusedText ==
    <<"C", "o", "n", "n", "e", "c", "t", "i", "o", "n", " ", "r", "e", "f", "u", "s",
      "e", "d", " ", "(", "o", "s", " ", "e", "r", "r", "o", "r", " ", "1", "1", "1",
      ")">>

\* ssh2::Error of a failed handshake
HandshakeText ==
    <<"[", "S", "e", "s", "s", "i", "o", "n", "(", "-", "5", ")", "]", " ", "U", "n",
      "a", "b", "l", "e", " ", "t", "o", " ", "e", "x", "c", "h", "a", "n", "g", "e",
      " ", "e", "n", "c", "r", "y", "p", "t", "i", "o", "n", " ", "k", "e", "y", "s">>

\* ssh2::Error of a rejected key file
KeyRejectedText ==
    <<"[", "S", "e", "s", "s", "i", "o", "n", "(", "-", "1", "8", ")", "]", " ", "U",
      "s", "e", "r", "n", "a", "m", "e", "/", "P", "u", "b", "l", "i", "c", "K", "e",
      "y", " ", "c", "o", "m", "b", "i", "n", "a", "t", "i", "o", "n", " ", "i", "n",
      "v", "a", "l", "i", "d">>

\* ssh2::Error of a refused channel
ChannelText ==
    <<"[", "S", "e", "s", "s", "i", "o", "n", "(", "-", "2", "1", ")", "]", " ", "C",
      "h", "a", "n", "n", "e", "l", " ", "o", "p", "e", "n", " ", "f", "a", "i", "l",
      "u", "r", "e">>

\* io::Error of a state file that cannot be written
DeniedText ==
    <<"P", "e", "r", "m", "i", "s", "s", "i", "o", "n", " ", "d", "e", "n", "i", "e",
      "d", " ", "(", "o", "s", " ", "e", "r", "r", "o", "r", " ", "1", "3", ")">>

\* the words tool_connect looks for
NOT_FOUND == <<"n", "o", "t", " ", "f", "o", "u", "n", "d">>
DOES_NOT_EXIST == <<"d", "o", "e", "s", " ", "n", "o", "t", " ", "e", "x", "i", "s", "t">>
KEY == <<"k", "e", "y">>
AUTH == <<"a", "u", "t", "h">>
PASSWORD == <<"p", "a", "s", "s", "w", "o", "r", "d">>
HOST_KEY == <<"h", "o", "s", "t", " ", "k", "e", "y">>
KNOWN_HOSTS == <<"k", "n", "o", "w", "n", "_", "h", "o", "s", "t", "s">>
TIMEOUT == <<"t", "i", "m", "e", "o", "u", "t">>
REFUSED == <<"r", "e", "f", "u", "s", "e", "d">>

\* the host of the session's configuration, and the names of the sessions
HostText == <<"h">>

NameText(name) ==
    CASE name = "local" -> <<"l", "o", "c", "a", "l">>
      [] name = "prod" -> <<"p", "r", "o", "d">>
      [] name = "dev" -> <<"d", "e", "v">>
      [] OTHER -> <<"n", "o", "s", "u", "c", "h">>

\* e.to_string() of the Err of Manager::connect(name): the message of the
\* SessionError, or the text of the ThopError; r.steps ends with the step
\* that failed
ErrorText(r, name) ==
    LET at == IF r.steps = <<>> THEN <<"", "">> ELSE r.steps[Len(r.steps)] IN
    CASE r.res = "session_not_found" -> SESSION_QUOTE \o NameText(name) \o QUOTE_NOT_FOUND
      [] r.res = "connection_timeout" -> TIMED_OUT_TO \o HostText
      [] r.res = "connection_failed" ->
            FAILED_TO_CONNECT_TO \o HostText \o <<":", " ">>
                \o (IF at[1] = "tcp" THEN RefusedText ELSE HandshakeText)
      [] r.res = "host_key_verification_failed" ->
            IF at[2] = "nokey" THEN NO_HOST_KEY ELSE VERIFICATION_FAILED_FOR \o HostText
      [] r.res = "host_key_changed" -> HOST_KEY_FOR \o HostText \o HAS_CHANGED
      [] r.res = "auth_key_rejected" -> KEY_REJECTED \o KeyRejectedText
      [] r.res = "auth_failed" -> AUTHENTICATION_FAILED_FOR \o HostText
      [] r.res = "other" -> FAILED_TO_OPEN_CHANNEL \o ChannelText
      [] r.res = "state_io" -> IO_ERROR \o DeniedText
      [] OTHER -> <<>>

\* str::contains
Contains(s, p) ==
    \E i \in 1..(Len(s) - Len(p) + 1) : SubSeq(s, i, i + Len(p) - 1) = p

\* tool_connect: the code picked by the words found in the error text
ConnectErrorCode(r, name) ==
    LET has(p) == Contains(ErrorText(r, name), p) IN
    IF has(NOT_FOUND) \/ has(DOES_NOT_EXIST) THEN "SESSION_NOT_FOUND"
    ELSE IF has(KEY) /\ has(AUTH) THEN "AUTH_KEY_FAILED"
    ELSE IF has(PASSWORD) THEN "AUTH_PASSWORD_FAILED"
    ELSE IF has(HOST_KEY) \/ has(KNOWN_HOSTS) THEN "HOST_KEY_UNKNOWN"
    ELSE IF has(TIMEOUT) THEN "CONNECTION_TIMEOUT"
    ELSE IF has(REFUSED) THEN "CONNECTION_REFUSED"
    ELSE "CONNECTION_FAILED"

tool_connect(m, args, o) ==
    LET connected(r) ==
            Tool(r, IF r.res = "ok" THEN ToolCallResult(<<Text("", "connected")>>, FALSE)
                    ELSE ToToolResult(MCPError(ConnectErrorCode(r, args.session.str),
                                               r.res)))
    IN
    IF AsStr(args.session) = <<>> THEN Refused(m, MissingParameter("session"))
    ELSE connected(ToolConnect(m, args.session.str, o))

tool_switch(m, args, o) ==
    IF AsStr(args.session) = <<>> THEN Refused(m, MissingParameter("session"))
    ELSE Answered(ToolSwitch(m, args.session.str, o), "switched")

tool_close(m, args, o) ==
    IF AsStr(args.session) = <<>> THEN Refused(m, MissingParameter("session"))
    ELSE Answered(ToolClose(m, args.session.str, o), "closed")

\* Manager::list_sessions: one SessionInfo per transport of the manager (in
\* the order of the HashMap, which the set leaves open)
ListSessions(m) ==
    {[name |-> n, type |-> m.sessions[n].kind, connected |-> m.sessions[n].connected,
      active |-> n = m.active_session, cwd |-> m.sessions[n].cwd] : n \in DOMAIN m.sessions}

\* for comparison: a status that lists the sessions as Manager::new made them
tool_status_stale(m, args) ==
    [r |-> MgrRet(m, "ok"),
     result |-> ToolCallResult(<<TextWithMime("sessions",
                    ListSessions(ManagerNew(config, StateManagerNew)))>>, FALSE)]

tool_status(m, args) ==
    Tool(MgrRet(m, "ok"), ToolCallResult(<<TextWithMime("sessions", ListSessions(m))>>, FALSE))

\* the content blocks of an executed command: stdout, stderr, exit code
ExecContent(out) ==
    LET blocks == (IF out.stdout # <<>> THEN <<Text("", "stdout")>> ELSE <<>>)
                  \o (IF out.stderr # "" THEN <<Text("", "stderr")>> ELSE <<>>)
                  \o (IF out.exit_code # 0 THEN <<Text("", "exit_code")>> ELSE <<>>)
    IN IF blocks = <<>> THEN <<Text("", "no output")>> ELSE blocks

tool_execute(m, args, o) ==
    LET background == IF AsBool(args.background) = <<>> THEN FALSE
                      ELSE args.background.bool
        session == IF AsStr(args.session) = <<>> THEN "" ELSE args.session.str
        executed(r) ==
            Tool(r, IF r.res = "not_implemented"
                    THEN ToToolResult(MCPError("NOT_IMPLEMENTED", "Background execution"))
                    ELSE IF r.res = "ok"
                    THEN ToolCallResult(ExecContent(r.out), r.out.exit_code # 0)
                    ELSE ToToolResult(FromError(r.res)))
    IN
    IF AsStr(args.command) = <<>> THEN Refused(m, MissingParameter("command"))
    ELSE executed(ToolExecute(m, args.command.chars, session, background, o))

\* what a handler returns: Ok(Some(value)), Ok(None) or Err(MCPError), and
\* the manager after it
HandlerOk(r, value) == [r |-> r, ok |-> TRUE, value |-> value, err |-> MCPError("", "")]
HandlerErr(r, err) == [r |-> r, ok |-> FALSE, value |-> <<>>, err |-> err]

\* serde_json::from_value::<T>(params): the params have T's shape or not
InvalidParams(m, params) ==
    IF params = <<>> THEN HandlerErr(MgrRet(m, "ok"), MissingParameter("params"))
    ELSE HandlerErr(MgrRet(m, "ok"), MCPError("INVALID_PARAMETER", "Invalid params"))

HasShape(params, shape) == params # <<>> /\ params[1].shape = shape

handle_initialize(m, params) ==
    IF ~HasShape(params, "initialize") THEN InvalidParams(m, params)
    ELSE HandlerOk(MgrRet(m, "ok"), <<Json("json", "capabilities")>>)

handle_tool_call(m, params, o) ==
    LET called(t) == HandlerOk(t.r, <<t.result>>)
        name == params[1].name
        args == params[1].arguments
    IN
    IF ~HasShape(params, "tool_call") THEN InvalidParams(m, params)
    ELSE IF name = "connect" THEN called(tool_connect(m, args, o))
    ELSE IF name = "switch" THEN called(tool_switch(m, args, o))
    ELSE IF name = "close" THEN called(tool_close(m, args, o))
    ELSE IF name = "status" THEN called(tool_status(m, args))
    ELSE IF name = "execute" THEN called(tool_execute(m, args, o))
    ELSE HandlerErr(MgrRet(m, "ok"), MCPError("INVALID_PARAMETER", "Unknown tool"))

\* get_state_resource: the active session of the server's own StateManager
get_state_resource(state) == state.active_session

handle_resource_read(m, state, params) ==
    LET read(text) == HandlerOk(MgrRet(m, "ok"), <<Json("resource", text)>>)
        uri == params[1].uri
    IN
    IF ~HasShape(params, "resource_read") THEN InvalidParams(m, params)
    ELSE IF uri = "session://active"
    THEN (IF HasSession(m, m.active_session) THEN read(m.active_session)
          ELSE HandlerErr(MgrRet(m, "ok"), MCPError("NO_ACTIVE_SESSION", "")))
    ELSE IF uri = "session://all" THEN read("sessions")
    ELSE IF uri = "config://thop" THEN read("config")
    ELSE IF uri = "state://thop" THEN read(get_state_resource(state))
    ELSE HandlerErr(MgrRet(m, "ok"), MCPError("INVALID_PARAMETER", "Unknown resource URI"))

\* the handler registered for `method`
Handler(m, state, method, params, o) ==
    IF method = "initialize" THEN handle_initialize(m, params)
    ELSE IF method = "tools/call" THEN handle_tool_call(m, params, o)
    ELSE IF method = "resources/read" THEN handle_resource_read(m, state, params)
    ELSE IF method \in {"tools/list", "resources/list", "ping"}
    THEN HandlerOk(MgrRet(m, "ok"), <<Json("json", method)>>)
    ELSE HandlerOk(MgrRet(m, "ok"), <<>>)

\* Server::send_response, Server::send_error: the line written
send_response(id, result) == [id |-> id, result |-> result, error |-> <<>>]
send_error(id, code) == [id |-> id, result |-> <<>>, error |-> <<code>>]

\* for comparison: a server that answers nothing
handle_request_silent(m, state, msg, method, o) ==
    [r |-> MgrRet(m, "ok"), written |-> <<>>]

\* Server::handle_request: the manager afterwards and the lines written
handle_request(m, state, msg, method, o) ==
    LET handled(h) ==
            [r |-> h.r,
             written |->
                IF h.ok
                THEN (IF ParseId(msg.id) # <<>>
                      THEN <<send_response(ParseId(msg.id), h.value)>> ELSE <<>>)
                ELSE <<send_response(ParseId(msg.id), <<ToToolResult(h.err)>>)>>]
    IN
    IF method \notin Handlers
    THEN [r |-> MgrRet(m, "ok"),
          written |-> <<send_error(ParseId(msg.id), MethodNotFound)>>]
    ELSE handled(Handler(m, state, method, msg.params, o))

\* Server::handle_message, with what Server::run does of its Err
handle_message(m, state, line, o) ==
    IF line.json = "invalid"
    THEN [r |-> MgrRet(m, "ok"), written |-> <<send_error(<<>>, InternalError)>>]
    ELSE IF line.method = <<>> THEN [r |-> MgrRet(m, "ok"), written |-> <<>>]
    ELSE handle_request(m, state, line, line.method[1], o)

\* the lines a client may send
Msg(method, id, params) == [json |-> "ok", method |-> method, id |-> id, params |-> params]

EmptyLine == [NoLine EXCEPT !.json = "empty"]
InvalidLine == [NoLine EXCEPT !.json = "invalid"]

NoArgs == [session |-> Absent, command |-> Absent, background |-> Absent,
           timeout |-> Absent]

ToolCallParams(name, arguments) ==
    [shape |-> "tool_call", name |-> name, arguments |-> arguments, uri |-> ""]

ResourceReadParams(uri) ==
    [shape |-> "resource_read", name |-> "", arguments |-> NoArgs, uri |-> uri]

InitializeParams ==
    [shape |-> "initialize", name |-> "", arguments |-> NoArgs, uri |-> ""]

OtherParams == [shape |-> "other", name |-> "", arguments |-> NoArgs, uri |-> ""]

StateUri == "state://thop"

Uris == {"session://active", "session://all", "config://thop", StateUri, "file:///etc"}

ToolCalls ==
    {ToolCallParams(t, [NoArgs EXCEPT !.session = s]) :
        t \in {"connect", "switch", "close"},
        s \in {Absent, Number, Str("prod"), Str("local"), Str("nosuch")}}
    \cup {ToolCallParams("status", NoArgs), ToolCallParams("reboot", NoArgs)}
    \cup {ToolCallParams("execute", [NoArgs EXCEPT !.session = s, !.command = c,
                                                   !.background = b]) :
            s \in {Absent, Str("prod")}, c \in {Absent, Number, Chars(LS)},
            b \in {Absent, Bool(TRUE)}}
    \cup {ToolCallParams("execute", a) :
            a \in {[NoArgs EXCEPT !.command = Chars(LS), !.session = Str("nosuch")],
                   [NoArgs EXCEPT !.command = Chars(LS), !.session = Number,
                                  !.background = Bool(TRUE), !.timeout = Number],
                   [NoArgs EXCEPT !.command = Chars(LS), !.background = Str("yes")],
                   [NoArgs EXCEPT !.command = Chars(FALSE_CMD)],
                   [NoArgs EXCEPT !.command = Chars(LS), !.session = Str("prod"),
                                  !.background = Bool(FALSE), !.timeout = Number]}}

Ids == {"absent", "7"}

Lines ==
    {EmptyLine, InvalidLine, Msg(<<>>, "7", <<>>),
     Msg(<<"ping">>, "null", <<>>), Msg(<<"unknown">>, "null", <<>>)}
    \cup {Msg(<<m>>, i, <<>>) : m \in Handlers \cup {"unknown"}, i \in Ids}
    \cup {Msg(<<"initialize">>, i, <<p>>) : i \in Ids, p \in {InitializeParams, OtherParams}}
    \cup {Msg(<<"resources/read">>, i, <<p>>) :
            i \in Ids, p \in {ResourceReadParams(u) : u \in Uris} \cup {OtherParams}}
    \cup {Msg(<<"tools/call">>, i, <<p>>) : i \in Ids, p \in ToolCalls \cup {OtherParams}}

\* what the network, the shells and the state file may answer to a tool
ServerAnswers ==
    {Calm, [Calm EXCEPT !.tcp = "refused"], [Calm EXCEPT !.save1 = FALSE, !.save2 = FALSE],
     [Calm EXCEPT !.sh = "spawn_error"], [Calm EXCEPT !.chan = "open_fail"]}

AnswersFor(line) == IF line.method = <<"tools/call">> THEN ServerAnswers ELSE {Calm}

\* Server::run: one line read and handled; an empty line is skipped
ServerLine(line, o) ==
    /\ mode = "mcp"
    /\ LET done(h) ==
               /\ DoneBy(h.r, "line", "server", "", <<>>)
               /\ written' = h.written
       IN done(IF line.json = "empty" THEN [r |-> MgrRet(M, "ok"), written |-> <<>>]
               ELSE handle_message(M, server_state, line, o))
    /\ request' = line
    /\ UNCHANGED server_state

\* the configurations the server is started with: the two sessions, and the
\* two with a third of a type Manager::new does not know
McpConfigs ==
    {ExecConfig,
     [ExecConfig EXCEPT !.sessions = @ @@ ("dev" :> "docker")]}

\* App::run_mcp: Manager::new(&config, Some(StateManager::new(..))) and
\* Server::new(config, sessions, StateManager::new(..))
InitMcp ==
    /\ config \in McpConfigs
    /\ state_manager = StateManagerNew
    /\ mode = "mcp"
    /\ sessions = ManagerNew(config, state_manager).sessions
    /\ active_session = ManagerNew(config, state_manager).active_session
    /\ enabled = FALSE
    /\ last = NoLast
    /\ InitJobs

NextMcp == \E line \in Lines : \E o \in AnswersFor(line) : ServerLine(line, o)

SpecMcp == InitMcp /\ [][NextMcp]_vars

\* the server given connect and close calls only, the network answering a
\* connect in every way of ConnectAnswers
ConnectLines ==
    {Msg(<<"tools/call">>, i, <<ToolCallParams(t, [NoArgs EXCEPT !.session = Str(n)])>>) :
        i \in Ids, t \in {"connect", "close"}, n \in {"prod", "local", "nosuch"}}

NextConnectTool ==
    \E line \in ConnectLines :
        \E o \in (IF line.params[1].name = "connect" THEN ConnectInputs ELSE {Calm}) :
            ServerLine(line, o)

SpecConnectTool == InitMcp /\ [][NextConnectTool]_vars

-----------------------------------------------------------------------------
(* Properties of command execution.                                        *)

\* C1: with the restriction checker enabled, a command that check() rejects
\* is not passed to a transport's execute by Manager.execute / execute_on.
C1_RejectedNeverExecuted ==
    (last.op = "execute" /\ enabled /\ ~Check(enabled, last.cmd).allowed)
        => last.passed = <<>>

\* the execute just taken on the connected remote session `n` is one in which
\* the channel of the pwd that follows a cd opened and reported its status
PwdAnswered(n) ==
    \E o \in ExecuteAnswers :
        /\ o.chan2 = "ok" /\ o.status2
        /\ LET r == SshExecute(sessions[n], last'.cmd, o) IN
           r.res = "ok" /\ r.out = last'.out /\ r.s = sessions'[n]

\* C7: on a connected remote session, after execute("cd D") whose composite
\* command exits with 0 the tracked cwd is the directory the remote shell
\* ended in; when it exits non-zero the tracked cwd is unchanged.
C7_RemoteCdTracksShell ==
    [][\A n \in DOMAIN sessions :
          (/\ Did("execute", "repl") /\ n = active_session
           /\ IsRemote(n) /\ sessions[n].connected
           /\ IsCdCommand(last'.cmd) /\ last'.res = "ok" /\ PwdAnswered(n))
          => LET run == ShellAndList(RemoteDirs, RemoteFiles, RemoteLoginDir, RemoteLoginDir,
                                     FullCmd(sessions[n], last'.cmd), <<>>)
             IN IF last'.out.exit_code = 0
                THEN sessions'[n].cwd = Render(run.at)
                ELSE sessions'[n].cwd = sessions[n].cwd]_vars

\* C8: on a local session, execute("cd D") either returns exit code 0 and
\* leaves cwd the canonical path of an existing directory, or returns a
\* non-zero exit code and leaves cwd unchanged; an empty path result is one
\* of the failures.
C8_LocalCdSucceedsOrKeepsCwd ==
    [][\A n \in DOMAIN sessions :
          (/\ Did("execute", "repl") /\ n = active_session /\ IsLocal(n)
           /\ IsCdCommand(last'.cmd))
          => IF last'.out.exit_code = 0
             THEN \E d \in LocalDirs : sessions'[n].cwd = Render(d)
             ELSE sessions'[n].cwd = sessions[n].cwd]_vars

\* C23: execute on a remote session that is not connected fails with
\* session-not-connected whatever a channel would have answered (none is
\* opened), leaves the transport (connected, cwd, env) and the manager as they
\* were, and takes no connect step.
C23_DisconnectedExecuteFails ==
    [][\A n \in DOMAIN sessions :
          (/\ Did("execute", "repl") /\ n = active_session
           /\ IsRemote(n) /\ ~sessions[n].connected)
          => /\ last'.res = "session_disconnected"
             /\ last'.passed = << <<n, last'.cmd>> >>
             /\ last'.out = NoOutput
             /\ last'.steps = <<>>
             /\ sessions' = sessions
             /\ ~sessions'[n].connected
             /\ UNCHANGED <<active_session, state_manager>>]_vars

\* a cd reached the remote session while it was not connected and was refused
C23_Witness ==
    /\ last.op = "execute" /\ last.res = "session_disconnected"
    /\ IsCdCommand(last.cmd)
    /\ IsRemote(active_session) /\ ~sessions[active_session].connected
    /\ last.passed = << <<active_session, last.cmd>> >>

\* every write asked of the persistence collaborator by the last operation
\* worked
AllSaved == \A i \in DOMAIN last.saves : last.saves[i][3]

\* C21: with a persistence collaborator attached and its writes succeeding,
\* after a successful operation of the manager the persisted state mirrors
\* the manager: after a switch the persisted active_session is the manager's;
\* after a connect or disconnect of a session its persisted connected flag is
\* the transport's is_connected(); after a successful cd executed through the
\* manager the persisted cwd of the active session is the transport's cwd.
C21_PersistedMirrorsMemory ==
    (state_manager.present /\ last.res = "ok" /\ AllSaved)
        => /\ last.op = "switch" => state_manager.active_session = active_session
           /\ \A i \in DOMAIN last.saves :
                 last.saves[i][1] \in {"connected", "disconnected"}
                    => /\ last.saves[i][2] \in DOMAIN state_manager.connected
                       /\ state_manager.connected[last.saves[i][2]]
                             = sessions[last.saves[i][2]].connected
           /\ (last.op = "execute" /\ IsCdCommand(last.cmd) /\ last.out.exit_code = 0)
                 => /\ active_session \in DOMAIN state_manager.cwd
                    /\ state_manager.cwd[active_session] = sessions[active_session].cwd

-----------------------------------------------------------------------------
(* Properties of the background jobs.                                      *)

\* C10: the job ids handed out start at 1 and each is the one before plus
\* one, whatever the interleaving of the submitting threads, so no two
\* submissions get the same id and the id of a job that cmd_fg or
\* cmd_kill_job removed is not handed out again; a job sits in the table
\* under the id it was given.
C10_JobIdsIncreaseByOne ==
    /\ \A i \in DOMAIN issued : issued[i] = i
    /\ \A t \in Submitters :
          threads[t].pc \in {"taken", "bumped", "insert"}
              => /\ threads[t].current \in DOMAIN issued
                 /\ threads[t].current \notin DOMAIN bg_jobs
                 /\ \A u \in Submitters \ {t} : threads[u].current # threads[t].current
    /\ \A i \in DOMAIN bg_jobs : bg_jobs[i].id = i /\ i \in DOMAIN issued

\* two threads are inside cmd_bg with the last two ids while job 1, handed
\* out first, has been removed from the table
C10_Witness ==
    /\ Len(issued) = MaxJobs /\ 1 \notin DOMAIN bg_jobs
    /\ \E t, u \in Submitters :
          /\ threads[t].pc = "insert" /\ threads[t].current = MaxJobs - 1
          /\ threads[u].pc = "taken" /\ threads[u].current = MaxJobs

\* C11: when cmd_bg returns, the job it submitted is in the table and is as
\* BackgroundJob::new made it (status running, end_time unset, exit code 0,
\* empty stdout and stderr), whatever the job's thread has done by then.
C11_SubmittedJobIsRunning ==
    [][\A t \in Submitters :
          (threads[t].pc = "return" /\ threads'[t].pc = "idle")
          => /\ threads[t].current \in DOMAIN bg_jobs'
             /\ bg_jobs'[threads[t].current] =
                    BackgroundJobNew(threads[t].current, threads[t].command,
                                     threads[t].session)]_vars

\* cmd_fg has returned Ok for job `id`
FgReturned(id) ==
    job_cmd.op = "fg" /\ job_cmd.pc = "idle" /\ job_cmd.res = "ok" /\ job_cmd.id = id

\* job `id` was handed out, its cmd_bg is past the insert, and it is not in
\* the table: cmd_fg or cmd_kill_job has removed it
Removed(id) ==
    /\ id \in DOMAIN issued
    /\ id \notin CmdJobs
    /\ \A t \in Submitters :
          ~(threads[t].current = id /\ threads[t].pc \in {"taken", "bumped", "insert"})

\* C12: cmd_fg on a job of the table returns Ok with the job only when the
\* job's status is completed or failed, never while it is running; the
\* return has removed the job, and a removed job stays removed in every
\* later step, so cmd_jobs never lists its id again.
C12_FgReturnsFinishedJobAndRemovesIt ==
    [][\A id \in JobIds :
          /\ (job_cmd.pc # "idle" /\ FgReturned(id)')
                => /\ Len(job_cmd'.job) = 1
                   /\ job_cmd'.job[1].id = id
                   /\ job_cmd'.job[1].status \in {"completed", "failed"}
                   /\ job_cmd'.job[1].end_time = "Some"
                   /\ Removed(id)'
          /\ Removed(id) => Removed(id)']_vars

\* cmd_fg has returned the completed job 1 while job 2 stays listed
C12_Witness ==
    /\ FgReturned(1) /\ Len(job_cmd.job) = 1
    /\ job_cmd.job[1].status = "completed" /\ job_cmd.job[1].exit_code = 0
    /\ 1 \notin CmdJobs /\ 2 \in CmdJobs

\* a /kill has just been answered
KillStep == job_cmd' # job_cmd /\ job_cmd'.op = "kill"

\* C13: cmd_kill_job(id) returns Ok exactly when job id is in the table with
\* status running, and then the job, marked failed with exit code 137, is
\* removed; on a completed or failed job it returns the not-running error
\* and on an id not in the table the not-found error, and in both cases the
\* table is unchanged; no other job is touched.
C13_KillOnlyRunning ==
    [][KillStep =>
          LET id == job_cmd'.id IN
          /\ (job_cmd'.res = "ok") <=> (id \in DOMAIN bg_jobs /\ bg_jobs[id].status = "running")
          /\ job_cmd'.res = "ok"
                => /\ bg_jobs' = JobsRemove(bg_jobs, id)
                   /\ Len(job_cmd'.job) = 1
                   /\ job_cmd'.job[1].status = "failed"
                   /\ job_cmd'.job[1].exit_code = 137
          /\ (id \in DOMAIN bg_jobs /\ bg_jobs[id].status # "running")
                => job_cmd'.res = "not_running" /\ bg_jobs' = bg_jobs
          /\ id \notin DOMAIN bg_jobs
                => job_cmd'.res = "not_found" /\ bg_jobs' = bg_jobs
          /\ UNCHANGED <<mgrVars, srvVars, next_job_id, id_lock, threads, issued, workers>>]_vars

\* /kill of a completed job was refused and the job is still in the table
C13_Witness ==
    /\ job_cmd.op = "kill" /\ job_cmd.res = "not_running"
    /\ job_cmd.id \in DOMAIN bg_jobs
    /\ bg_jobs[job_cmd.id].status = "completed"
    /\ \E i \in DOMAIN issued : i \notin DOMAIN bg_jobs

\* the thread of job `id` ends in this step
WorkerEnds(id) == id \in workers /\ id \notin workers'

\* C28: the status of a job in the table changes at most once, from running
\* to completed or failed, in the step in which the job's thread ends, and a
\* job that is completed or failed is never written again; the thread's one
\* update takes a running job to completed or failed and removes nothing; a
\* job leaves the table only in a cmd_fg or a cmd_kill_job on its id that
\* returns Ok, and cmd_kill_job removes only a running job, so no job is
\* both killed and recorded as completed.
C28_StatusChangesOnce ==
    [][\A id \in JobIds :
          /\ (id \in DOMAIN bg_jobs /\ id \in DOMAIN bg_jobs'
                 /\ bg_jobs'[id] # bg_jobs[id])
                => /\ bg_jobs[id].status = "running"
                   /\ bg_jobs'[id].status \in {"completed", "failed"}
                   /\ WorkerEnds(id)
          /\ (WorkerEnds(id) /\ id \in DOMAIN bg_jobs)
                => /\ bg_jobs[id].status = "running"
                   /\ id \in DOMAIN bg_jobs'
                   /\ bg_jobs'[id].status \in {"completed", "failed"}
          /\ WorkerEnds(id) => DOMAIN bg_jobs' = DOMAIN bg_jobs
          /\ (id \in DOMAIN bg_jobs /\ id \notin DOMAIN bg_jobs')
                => /\ job_cmd' # job_cmd
                   /\ job_cmd'.op \in {"fg", "kill"}
                   /\ job_cmd'.id = id /\ job_cmd'.res = "ok"
                   /\ job_cmd'.op = "kill" => bg_jobs[id].status = "running"
                   /\ job_cmd'.op = "fg" => bg_jobs[id].status # "running"]_vars

\* the thread of a job has recorded a failure, and a /kill of that job was
\* refused and left it in the table
C28_Witness ==
    /\ job_cmd.op = "kill" /\ job_cmd.res = "not_running"
    /\ job_cmd.id \in DOMAIN bg_jobs /\ job_cmd.id \notin workers
    /\ bg_jobs[job_cmd.id].status = "failed" /\ bg_jobs[job_cmd.id].exit_code = 1

\* cmd_fg is in its loop on job `id`
Polling(id) == job_cmd.pc = "wait" /\ job_cmd.id = id

\* C29: when the thread of every job ends at some time, a cmd_fg in its
\* loop on job id returns at some time; and the loop is left only when the
\* job is not in the table with status running.
C29_WaitReturns ==
    /\ \A id \in JobIds : Polling(id) ~> (job_cmd.pc = "idle" /\ job_cmd.id = id)
    /\ [][(job_cmd.pc = "wait" /\ job_cmd'.pc # "wait")
            => ~(job_cmd.id \in DOMAIN bg_jobs
                   /\ bg_jobs[job_cmd.id].status = "running")]_vars

\* cmd_fg is in its loop on a running job whose thread has not ended
C29_Witness ==
    \E id \in JobIds :
        /\ Polling(id) /\ id \in workers
        /\ id \in DOMAIN bg_jobs /\ bg_jobs[id].status = "running"

\* C30: a cmd_kill_job that returns Ok leaves the thread of the job running;
\* when that thread ends, the job is not in the table and the table stays as
\* it is; the id is never listed again; and the end of a job's thread leaves
\* every other job of the table as it was.
C30_KilledJobStaysGone ==
    [][\A id \in JobIds :
          /\ (KillStep /\ job_cmd'.id = id /\ job_cmd'.res = "ok")
                => id \in workers' /\ workers' = workers
          /\ (WorkerEnds(id) /\ id \notin DOMAIN bg_jobs)
                => /\ bg_jobs' = bg_jobs
                   /\ UNCHANGED <<mgrVars, srvVars, next_job_id, id_lock, threads,
                                   issued, job_cmd>>
          /\ WorkerEnds(id)
                => /\ DOMAIN bg_jobs' = DOMAIN bg_jobs
                   /\ \A j \in DOMAIN bg_jobs \ {id} : bg_jobs'[j] = bg_jobs[j]
          /\ Removed(id) => id \notin CmdJobs']_vars

\* job 1 was killed, its thread has ended since, and job 2 is still running
C30_Witness ==
    /\ job_cmd.op = "kill" /\ job_cmd.res = "ok" /\ job_cmd.id = 1
    /\ 1 \notin workers /\ 1 \notin CmdJobs
    /\ 2 \in CmdJobs /\ bg_jobs[2].status = "running" /\ 2 \in workers

\* C31: from the submission of a job to the end of its thread no step
\* changes the REPL's manager: active_session and every session's connected
\* flag, cwd and env stay as they were, whatever the job's command did or
\* returned; the end of the thread writes the job table and nothing else the
\* REPL holds.
C31_JobLeavesManagerAlone ==
    [][/\ sessions' = sessions
       /\ active_session' = active_session
       /\ state_manager' = state_manager
       /\ \A id \in JobIds :
             WorkerEnds(id)
                => UNCHANGED <<config, mode, enabled, last, next_job_id, id_lock,
                               threads, issued, job_cmd>>]_vars

\* a job `cd u` submitted on the local session has completed with exit code
\* 0, and the REPL's local session is where it started
C31_Witness ==
    \E id \in DOMAIN bg_jobs :
        /\ bg_jobs[id].command = CD_U /\ bg_jobs[id].session = "local"
        /\ bg_jobs[id].status = "completed" /\ bg_jobs[id].exit_code = 0
        /\ id \notin workers
        /\ active_session = "local" /\ sessions["local"].cwd = LocalStartDir

\* C32: the thread of a job submitted on a remote session ends with the job
\* failed, exit code 1, the session-not-connected error in stderr and no
\* output, whether or not the REPL's session of that name is connected and
\* whatever a channel would have answered; cmd_bg has returned for it with
\* the job's id handed out and the job in the table.
C32_RemoteJobFails ==
    [][\A id \in JobIds :
          /\ (WorkerEnds(id) /\ id \in DOMAIN bg_jobs /\ IsRemote(bg_jobs[id].session))
                => bg_jobs'[id] = [bg_jobs[id] EXCEPT !.status = "failed",
                                                      !.end_time = "Some",
                                                      !.stdout = <<>>,
                                                      !.stderr = "session_disconnected",
                                                      !.exit_code = 1]
          /\ (threads[Repl].pc = "return" /\ threads'[Repl].pc = "idle"
                 /\ threads[Repl].current = id /\ IsRemote(threads[Repl].session))
                => /\ id \in DOMAIN issued
                   /\ id \in DOMAIN bg_jobs'
                   /\ bg_jobs'[id].session = threads[Repl].session]_vars

\* the REPL's remote session is connected and active, cmd_bg has returned,
\* and the job it submitted there has failed as not connected
C32_Witness ==
    \E id \in DOMAIN bg_jobs :
        /\ active_session = "prod" /\ sessions["prod"].connected
        /\ bg_jobs[id].session = "prod" /\ id \notin workers
        /\ bg_jobs[id].status = "failed" /\ bg_jobs[id].exit_code = 1
        /\ bg_jobs[id].stderr = "session_disconnected"
        /\ threads[Repl].pc = "idle"

-----------------------------------------------------------------------------
(* Properties of the MCP server.  `request` is the line read last and      *)
(* `written` the lines written while it was handled, so a statement about   *)
(* both is one about what the server wrote before reading the next line.   *)

\* the line read last is a message with the method `method`
IsMethod(line, method) == line.json = "ok" /\ line.method = <<method>>

\* the line read last is a tools/call of the tool `tool`
IsToolCall(line, tool) ==
    /\ IsMethod(line, "tools/call")
    /\ HasShape(line.params, "tool_call")
    /\ line.params[1].name = tool

\* the arguments of the tools/call read
Arguments(line) == line.params[1].arguments

\* the one line written is a response with a result and no error object
OneResult(lines, id) ==
    Len(lines) = 1 /\ lines[1].id = id /\ lines[1].error = <<>> /\ Len(lines[1].result) = 1

\* the manager is as it was and nothing was connected, executed or saved
ManagerUntouched ==
    /\ UNCHANGED <<sessions, active_session, state_manager>>
    /\ last'.steps = <<>> /\ last'.passed = <<>> /\ last'.saves = <<>>

\* C14: for an input message with a method and an id the server has
\* written exactly one line, carrying that id, by the time it reads the
\* next line: for an unknown method, a handler that succeeded and a handler
\* that failed alike.
C14_OneResponsePerRequest ==
    (request.json = "ok" /\ request.method # <<>> /\ ParseId(request.id) # <<>>)
        => Len(written) = 1 /\ written[1].id = ParseId(request.id)

\* a tools/call without params and with an id: the handler failed and the
\* one line written carries the id
C14_Witness ==
    /\ IsMethod(request, "tools/call") /\ request.params = <<>> /\ request.id = "7"
    /\ Len(written) = 1 /\ written[1].id = <<"7">>
    /\ written[1].result[1].is_error

\* C15: for a message with a registered method and no id the server writes
\* nothing, also when the handler returns an error.
C15_NotificationsUnanswered ==
    (request.json = "ok" /\ request.method # <<>> /\ request.method[1] \in Handlers
     /\ ParseId(request.id) = <<>>)
        => written = <<>>

\* C16: a message whose method is not in the handler table gets, with an
\* id, exactly one error response with code -32601, that id and no result,
\* and without an id no output at all; the manager is unchanged.
C16_UnknownMethod ==
    [][(request'.json = "ok" /\ request'.method # <<>>
        /\ request'.method[1] \notin Handlers)
       => /\ written' = IF ParseId(request'.id) # <<>>
                        THEN <<send_error(ParseId(request'.id), MethodNotFound)>>
                        ELSE <<>>
          /\ ManagerUntouched]_vars

\* the tool called did not do what it was asked
ToolFailed == last.res # "ok" \/ last.out.exit_code # 0

\* C17: a tools/call request with an id is answered with one response that
\* has a result and no error object, whatever the tool and the outcome;
\* when the tool failed the result has is_error set.
C17_ToolCallsAnsweredWithResult ==
    (IsMethod(request, "tools/call") /\ ParseId(request.id) # <<>>)
        => /\ OneResult(written, ParseId(request.id))
           /\ ToolFailed => written[1].result[1].is_error

\* a connect that the network refused, answered with a result
C17_Witness ==
    /\ IsToolCall(request, "connect") /\ request.id = "7"
    /\ last.steps # <<>> /\ last.res # "ok"
    /\ OneResult(written, <<"7">>) /\ written[1].result[1].is_error

\* the execute call read has a command and background = true
IsBackgroundExecute(line) ==
    /\ IsToolCall(line, "execute")
    /\ AsStr(Arguments(line).command) # <<>>
    /\ AsBool(Arguments(line).background) = <<TRUE>>

\* C18: an execute call (with its command) and background = true returns
\* the NOT_IMPLEMENTED error result, whatever the session and timeout
\* arguments; no command reaches a session and the manager, with every
\* session's cwd, env and connected, is unchanged.
C18_BackgroundNotImplemented ==
    [][IsBackgroundExecute(request')
       => /\ ManagerUntouched
          /\ last'.res = "not_implemented"
          /\ ParseId(request'.id) # <<>>
                => /\ OneResult(written', ParseId(request'.id))
                   /\ written'[1].result[1].is_error
                   /\ written'[1].result[1].content[1].code = "NOT_IMPLEMENTED"]_vars

\* a background execute on the connected remote session, with a timeout
C18_Witness ==
    /\ IsBackgroundExecute(request) /\ request.id = "7"
    /\ Arguments(request).timeout = Number
    /\ \E n \in DOMAIN sessions : IsRemote(n) /\ sessions[n].connected
    /\ written[1].result[1].content[1].code = "NOT_IMPLEMENTED"

\* the tool call read lacks its required argument, or gives it a value that
\* is not a string
LacksRequired(line) ==
    \/ /\ \E tool \in {"connect", "switch", "close"} : IsToolCall(line, tool)
       /\ Arguments(line).session.json # "string"
    \/ /\ IsToolCall(line, "execute")
       /\ Arguments(line).command.json # "string"

\* C19: connect, switch, close without a string `session` and execute
\* without a string `command` return an error result whose first content
\* block has MISSING_PARAMETER, and connect, switch, disconnect or execute
\* nothing: the manager is unchanged.
C19_MissingParameter ==
    [][LacksRequired(request')
       => /\ ManagerUntouched
          /\ last'.res = "MISSING_PARAMETER"
          /\ ParseId(request'.id) # <<>>
                => /\ OneResult(written', ParseId(request'.id))
                   /\ written'[1].result[1].is_error
                   /\ written'[1].result[1].content[1].code = "MISSING_PARAMETER"]_vars

\* a close whose session argument is a number, with the remote session
\* connected and active: it stays so
C19_Witness ==
    /\ IsToolCall(request, "close") /\ Arguments(request).session = Number
    /\ request.id = "7"
    /\ active_session = "prod" /\ sessions["prod"].connected
    /\ written[1].result[1].content[1].code = "MISSING_PARAMETER"

\* the line read is a resources/read of state://thop with an id
IsStateRead(line) ==
    /\ IsMethod(line, "resources/read")
    /\ HasShape(line.params, "resource_read")
    /\ line.params[1].uri = StateUri
    /\ ParseId(line.id) # <<>>

\* C20: resources/read of state://thop reports the persisted active
\* session: read right after a successful switch to n through the same
\* server, the active_session it reports is n, the manager's active session.
C20_StateResourceReportsActive ==
    [][(/\ IsToolCall(request, "switch") /\ last.res = "ok"
        /\ IsStateRead(request'))
       => /\ OneResult(written', ParseId(request'.id))
          /\ written'[1].result[1].content[1].text = Arguments(request).session.str
          /\ written'[1].result[1].content[1].text = active_session']_vars

\* C27: the status tool answers with a result whose isError is false and is
\* written into the response as isError:false, and with one content block
\* holding a JSON array of one descriptor per session of the configuration,
\* whatever the configuration, the active session and the connections.
C27_StatusListsEverySession ==
    (IsToolCall(request, "status") /\ ParseId(request.id) # <<>>)
        => /\ OneResult(written, ParseId(request.id))
           /\ ~written[1].result[1].is_error
           /\ "isError" \in written[1].result[1].members
           /\ Len(written[1].result[1].content) = 1
           /\ Cardinality(written[1].result[1].content[1].json)
                 = Cardinality(DOMAIN config.sessions)

\* C34: every line the server has written for the line read last carries a
\* result or an error object, one of the two and not both.
C34_ResultXorError ==
    \A i \in DOMAIN written : (written[i].result # <<>>) # (written[i].error # <<>>)

\* C35: for a line that is not a message with a method (a message without
\* the method member, or a line serde does not take for a JSON-RPC message)
\* the server writes nothing and leaves the sessions, the active session and
\* the persisted state as they were.
C35_NonRequestIgnored ==
    [][(vars' # vars /\ (request'.json = "invalid"
                          \/ (request'.json = "ok" /\ request'.method = <<>>)))
          => /\ written' = <<>>
             /\ UNCHANGED <<sessions, active_session, state_manager, server_state>>]_vars

\* C36: the lines written while a line was handled are written before the
\* next line is read and answer that line: at most one line, with the id of
\* the line read (null for a line that is no message); and a tool call sees
\* the manager as all the earlier lines left it: the status tool lists the
\* sessions, their connected flags, the active one and the directories as
\* they are when its line is read, and leaves them so.
C36_OneLineAtATime ==
    [][vars' # vars
          => /\ Len(written') <= 1
             /\ \A i \in DOMAIN written' : written'[i].id = ParseId(request'.id)
             /\ (IsToolCall(request', "status") /\ ParseId(request'.id) # <<>>)
                   => /\ OneResult(written', ParseId(request'.id))
                      /\ written'[1].result[1].content[1].json = ListSessions(M)
                      /\ M' = M]_vars

\* the status call read after a switch to the remote session reports that
\* session as connected and active
C36_Witness ==
    /\ IsToolCall(request, "status") /\ OneResult(written, ParseId(request.id))
    /\ \E d \in written[1].result[1].content[1].json :
          d.name = "prod" /\ d.connected /\ d.active

-----------------------------------------------------------------------------
(* Properties of authenticate.  `auth_call.a` is what the call met,         *)
(* `auth_call.tried` the attempts it made, `auth_call.res` what it returned.*)

\* the place of a kind of key in the fallback order
KindRank(kind) == CASE kind = "agent" -> 1 [] kind = "identity" -> 2 [] kind = "default" -> 3

\* whether the server accepts the key of an attempt
Accepted(a, t) ==
    CASE t.kind = "agent" -> a.agent[t.index]
      [] t.kind = "identity" -> a.identity = "ok"
      [] t.kind = "default" -> a.defaults[t.index]

\* C37: authenticate tries the agent's identities in their order, then the
\* configured identity file if it is there, then id_ed25519, id_rsa and
\* id_ecdsa; it returns Ok at the first key accepted and tries nothing
\* after it; a rejected configured identity file ends the call with
\* auth-key-rejected and no default file is tried; the failures of agent
\* identities and default files are passed over, and when every one of them
\* has failed and there is no configured file the call returns auth-failed.
C37_AuthenticationOrder ==
    auth_call.pc = "returned" =>
        LET a == auth_call.a
            tried == auth_call.tried
            res == auth_call.res
            n == Len(tried)
            of(kind) == {i \in DOMAIN tried : tried[i].kind = kind}
        IN
        /\ \A i, j \in DOMAIN tried :
              i < j => \/ KindRank(tried[i].kind) < KindRank(tried[j].kind)
                       \/ /\ tried[i].kind = tried[j].kind
                          /\ tried[j].index = tried[i].index + (j - i)
        /\ \A k \in {"agent", "identity", "default"} :
              \A i \in of(k) : (\A j \in of(k) : i <= j) => tried[i].index = 1
        /\ \A i \in DOMAIN tried : tried[i].ok = Accepted(a, tried[i])
        /\ \A i \in DOMAIN tried : tried[i].ok => i = n
        /\ res \in {"ok", "auth_key_rejected", "auth_failed"}
        /\ res = "ok" <=> (n > 0 /\ tried[n].ok)
        /\ res = "auth_key_rejected"
              <=> (n > 0 /\ tried[n].kind = "identity" /\ ~tried[n].ok)
        /\ of("identity") # {} => a.identity \in {"ok", "rejected"} /\ of("default") = {}
        /\ res # "ok" => Cardinality(of("agent")) = Len(a.agent)
        /\ (res # "ok" \/ tried[n].kind # "agent")
              => (of("identity") # {} <=> a.identity \in {"ok", "rejected"})
        /\ res = "auth_failed"
              => /\ Cardinality(of("default")) = Len(DefaultKeys)
                 /\ \A i \in DOMAIN tried : ~tried[i].ok
        /\ (of("default") # {} /\ res = "ok")
              => DefaultKeys[tried[n].index]
                    = DefaultKeys[CHOOSE i \in DOMAIN a.defaults :
                                     a.defaults[i] /\ \A j \in 1 .. i - 1 : ~a.defaults[j]]

\* the agent's identity was refused, the configured identity file was
\* rejected, and id_ed25519, which the server would have accepted, was not
\* tried
C37_Witness ==
    /\ auth_call.pc = "returned" /\ auth_call.res = "auth_key_rejected"
    /\ auth_call.a.agent = <<FALSE>> /\ auth_call.a.defaults[1]
    /\ Len(auth_call.tried) = 2
    /\ auth_call.tried[1].kind = "agent" /\ auth_call.tried[2].kind = "identity"

-----------------------------------------------------------------------------
(* The manager with and without the persistence collaborator.  Without(m)   *)
(* is the manager of Manager::new(config, None) in the in-memory state of   *)
(* m; the calls are compared on what they return and on the in-memory      *)
(* state they leave.                                                       *)

Without(m) == [m EXCEPT !.state_manager = NoStateManager]

InMemory(m) == [sessions |-> m.sessions, active_session |-> m.active_session]

\* what a caller and the next call can see of a call: Ok or which Err, the
\* output, what reached the transport, the manager's in-memory state
Seen(r) == [res |-> r.res, out |-> r.out, passed |-> r.passed, steps |-> r.steps,
            mem |-> InMemory(r.m)]

SameCalls(m) ==
    LET same(a, b) == Seen(a) = Seen(b) IN
    /\ \A n \in Names :
          /\ same(SetActiveSession(m, n, TRUE), SetActiveSession(Without(m), n, TRUE))
          /\ same(Disconnect(m, n, TRUE), Disconnect(Without(m), n, TRUE))
          /\ \A o \in ConnectAnswers :
                same(Connect(m, n, o, TRUE), Connect(Without(m), n, o, TRUE))
          /\ \A o \in FewExecuteAnswers :
                same(ExecuteOn(m, n, LS, o), ExecuteOn(Without(m), n, LS, o))
    /\ \A c \in {LS, FALSE_CMD}, o \in FewExecuteAnswers :
          same(Execute(m, c, o), Execute(Without(m), c, o))
    /\ ListSessions(m) = ListSessions(Without(m))

\* C38: a manager without the persistence collaborator, in the same in-memory
\* state as one with a collaborator whose writes succeed, returns the same
\* Ok or Err from set_active_session, connect, disconnect, execute,
\* execute_on and list_sessions, and is left in the same in-memory state
\* (active_session and every transport's connected, cwd and env); the one
\* with the collaborator asks for writes, the other for none
C38_SameWithoutPersistence ==
    state_manager.present =>
        /\ SameCalls(M)
        /\ \A n \in DOMAIN sessions :
              /\ SetActiveSession(Without(M), n, TRUE).saves = <<>>
              /\ Disconnect(Without(M), n, TRUE).saves = <<>>
              /\ Connect(Without(M), n, Calm, TRUE).saves = <<>>
              /\ SetActiveSession(M, n, TRUE).saves # <<>>
              /\ Disconnect(M, n, TRUE).saves # <<>>

\* the manager with the collaborator has connected and switched to prod and
\* written both, and a switch to local is accepted with and without it
C38_Witness ==
    /\ state_manager.present /\ state_manager.active_session = "prod"
    /\ "prod" \in DOMAIN state_manager.connected /\ state_manager.connected["prod"]
    /\ active_session = "prod" /\ sessions["prod"].connected
    /\ last.op = "switch" /\ last.res = "ok"
    /\ SetActiveSession(M, "local", TRUE).res = "ok"
    /\ SetActiveSession(Without(M), "local", TRUE).res = "ok"
    /\ Connect(M, "dev", Calm, TRUE).res = "session_not_found"
    /\ Connect(Without(M), "dev", Calm, TRUE).res = "session_not_found"

-----------------------------------------------------------------------------
(* Closing the active session.                                             *)

\* the close just made was a successful close, by loop `by`, of the session
\* that was active, remote and connected
ClosedActiveRemote(by) ==
    /\ Did("close", by) /\ last'.res = "ok"
    /\ last'.arg = active_session
    /\ IsRemote(active_session) /\ sessions[active_session].connected

\* the manager after the step
MAfter == [sessions |-> sessions', active_session |-> active_session',
           state_manager |-> state_manager']

\* C39: a successful close of the active remote session, by the REPL's
\* /close, the proxy's /close or the MCP close tool, leaves active_session
\* "local", and an execute without a session name then runs on the local
\* transport
C39_CloseLeavesLocalActive ==
    [][\A by \in {"repl", "proxy", "mcp"} :
          ClosedActiveRemote(by) =>
              /\ active_session' = "local"
              /\ Execute(MAfter, LS, Calm).passed = << <<"local", LS>> >>]_vars

\* the same of the two loops that switch back after the disconnect
CloseBySlashCommandLeavesLocalActive ==
    [][\A by \in {"repl", "proxy"} :
          ClosedActiveRemote(by) =>
              /\ active_session' = "local"
              /\ Execute(MAfter, LS, Calm).passed = << <<"local", LS>> >>]_vars

-----------------------------------------------------------------------------
(* The codes of the connect tool.                                          *)

\* the line just handled was a connect call whose Manager::connect failed
ConnectToolFailed ==
    /\ request'.method = <<"tools/call">> /\ request'.params[1].name = "connect"
    /\ request'.params[1].arguments.session.json = "string"
    /\ last'.op = "line" /\ last'.res # "ok"
    /\ Len(written') = 1 /\ written'[1].result # <<>>

\* the step at which the connect failed, with the answer it got
FailedAt == IF last'.steps = <<>> THEN <<"", "">> ELSE last'.steps[Len(last'.steps)]

\* the code in the text block of the answer
ReportedCode == written'[1].result[1].content[1].code

\* C40: the connect tool reports an unknown session as SESSION_NOT_FOUND, a
\* connection timeout as CONNECTION_TIMEOUT, a host key missing from
\* known_hosts as HOST_KEY_UNKNOWN, a rejected key as AUTH_KEY_FAILED, and
\* CONNECTION_FAILED for none of these four
C40_ConnectFailureCodes ==
    [][ConnectToolFailed =>
          /\ last'.res = "session_not_found" => ReportedCode = "SESSION_NOT_FOUND"
          /\ last'.res = "connection_timeout" => ReportedCode = "CONNECTION_TIMEOUT"
          /\ FailedAt = <<"hostkey", "NotFound">> => ReportedCode = "HOST_KEY_UNKNOWN"
          /\ last'.res = "auth_key_rejected" => ReportedCode = "AUTH_KEY_FAILED"
          /\ ReportedCode = "CONNECTION_FAILED" =>
                /\ last'.res \notin {"session_not_found", "connection_timeout",
                                     "auth_key_rejected"}
                /\ FailedAt # <<"hostkey", "NotFound">>]_vars

\* the part that holds: an unknown session is reported as SESSION_NOT_FOUND
\* and nothing else is
UnknownSessionReported ==
    [][ConnectToolFailed =>
          (last'.res = "session_not_found" <=> ReportedCode = "SESSION_NOT_FOUND")]_vars

-----------------------------------------------------------------------------
(* Properties of the restriction checker.  `check_call.on` is the flag as  *)
(* the call loaded it; `check_call.result` is what the call returned.      *)

Allowed == [allowed |-> TRUE, rule |-> NoRule]

\* the rules whose pattern matches the trimmed command
Matching(cmd) == {i \in DOMAIN Rules : IsMatch(Rules[i], Trim(cmd))}

\* C24: the checker starts disabled; a check that finds the flag false, at
\* the start or after any calls of set_enabled, returns allowed with no rule
\* whatever the command; the flag is read once, so a check that a
\* set_enabled overtakes answers entirely as enabled (rejected with a matching
\* rule, or allowed with none when no rule matches) or entirely as disabled.
C24_DisabledAllowsAll ==
    /\ last.op = "none" => ~enabled
    /\ check_call.pc = "returned" =>
          IF ~check_call.on THEN check_call.result = Allowed
          ELSE IF Matching(check_call.cmd) = {} THEN check_call.result = Allowed
          ELSE /\ ~check_call.result.allowed
               /\ \E i \in Matching(check_call.cmd) : check_call.result.rule = Rules[i]

\* a command that a rule matches is allowed with the flag off, after an
\* earlier check was rejected
C24_Witness ==
    /\ check_call.pc = "returned" /\ ~check_call.on /\ ~enabled
    /\ check_call.rejected
    /\ Matching(check_call.cmd) # {}
    /\ check_call.result = Allowed

\* the restricted command names
RestrictedNames == {Rules[i].command : i \in {j \in DOMAIN Rules : Rules[j].shape = "name"}}

\* position p of s is where a command starts: going back from p over
\* whitespace one arrives at the start of s or at one of | ; &
AtCommandPosition(s, p) ==
    LET before == {q \in 1 .. p - 1 : ~IsSpace(s[q])}
    IN before = {} \/ s[CHOOSE q \in before : \A r \in before : r <= q] \in {"|", ";", "&"}

\* a restricted name stands at a command position of s with whitespace after it
NameAsCommand(s) ==
    \E w \in RestrictedNames, p \in 1 .. Len(s) :
        /\ p + Len(w) <= Len(s)
        /\ SubSeq(s, p, p + Len(w) - 1) = w
        /\ IsSpace(s[p + Len(w)])
        /\ AtCommandPosition(s, p)

\* one of the special patterns (truncate to size 0, a bare redirect, mkfs
\* with a suffix) matches s
SpecialPattern(s) == \E i \in DOMAIN Rules : Rules[i].shape # "name" /\ IsMatch(Rules[i], s)

FamilyRank(category) ==
    CASE category = "PrivilegeEscalation" -> 1
      [] category = "DestructiveFile" -> 2
      [] category = "SystemModification" -> 3

\* C26: with checking on, when several rules match, check returns the one
\* registered first (privilege escalation before destructive file before
\* system modification) wherever in the command the matches lie: both
\* `ls; sudo rm f` and `rm f; sudo ls` are reported as privilege escalation
\* by sudo; the result is allowed = false with that rule; when no rule
\* matches it is allowed with no rule.
C26_FirstRegisteredRuleWins ==
    (check_call.pc = "returned" /\ check_call.on)
        => IF Matching(check_call.cmd) = {} THEN check_call.result = Allowed
           ELSE /\ ~check_call.result.allowed
                /\ \E i \in Matching(check_call.cmd) :
                      /\ check_call.result.rule = Rules[i]
                      /\ \A j \in Matching(check_call.cmd) :
                            /\ i <= j
                            /\ FamilyRank(Rules[i].category) <= FamilyRank(Rules[j].category)
                /\ check_call.cmd \in {LS_SUDO_RM, RM_SUDO_LS}
                      => /\ check_call.result.rule.command = <<"s", "u", "d", "o">>
                         /\ check_call.result.rule.category = "PrivilegeEscalation"

\* `rm f; sudo ls`, matched by the rules of rm and of sudo, was reported as sudo
C26_Witness ==
    /\ check_call.pc = "returned" /\ check_call.on
    /\ check_call.cmd = RM_SUDO_LS
    /\ Cardinality(Matching(check_call.cmd)) = 2
    /\ check_call.result.rule.command = <<"s", "u", "d", "o">>

====
